---- MODULE Spec2Model ----
(***************************************************************************)
(* Bookkeeping bot (Jun878787/Railway-PostgreSQL): the free-text           *)
(* transaction grammar (utils.TransactionParser), the message handler      *)
(* (handlers.BotHandlers), the ledger / exchange-rate store                 *)
(* (database.DatabaseManager, railway_database.RailwayDatabaseManager)     *)
(* and the report formatters.                                               *)
(*                                                                         *)
(* Texts are sequences of characters; a character is a one-element string  *)
(* ("T", "5", " ") or, for a character outside ASCII, the name of its code *)
(* point ("u522A").  Regular expressions are evaluated on those sequences   *)
(* the way Python's re module evaluates them (leftmost match, greedy       *)
(* quantifiers, alternatives in order).                                     *)
(*                                                                         *)
(* Amounts are integers.  Exchange rates are held in units of 0.00001      *)
(* (33.33 is 3333000); a settlement (USDT) amount is an exact fraction     *)
(* [n, d].                                                                 *)
(***************************************************************************)
EXTENDS Integers, Sequences, FiniteSets, TLC

VARIABLES
    backend,         \* "sqlite" (database.py) or "railway" (railway_database.py)
    today,           \* the date datetime.now() / date.today() returns
    transactions,    \* the transactions table, in insertion (id) order
    exchange_rates,  \* the exchange_rates table: a set of rows, one per (date, currency)
    funds,           \* the funds / fund_balances table, in insertion order
    users,           \* the ids of the users table
    groups,          \* the ids of the groups table
    last,            \* the last operation handled and what it answered
    text,            \* the argument of a direct parse_transaction call
    parsed,          \* the result of that call
    tasks,           \* the handler coroutines in flight: the lock, and each one's position
    user_states      \* BotHandlers.user_states: the pending clear-report step of each user

vars == <<backend, today, transactions, exchange_rates, funds, users, groups, last, text, parsed,
          tasks, user_states>>

None == "None"

\* no handler coroutine in flight, the lock free (held by no task: 0)
NoTasks == [lock |-> 0, pc |-> <<>>]

\* self.user_states = {}: no user has a clear-report step pending.  The
\* dict is the set of its entries [user_id, action, step, date].
NoStates == {}

(***************************************************************************)
(* Characters and strings                                                  *)
(***************************************************************************)
Digits == {"0", "1", "2", "3", "4", "5", "6", "7", "8", "9"}

IsDigit(c) == c \in Digits

DigitVal(c) ==
    CASE c = "0" -> 0 [] c = "1" -> 1 [] c = "2" -> 2 [] c = "3" -> 3
      [] c = "4" -> 4 [] c = "5" -> 5 [] c = "6" -> 6 [] c = "7" -> 7
      [] c = "8" -> 8 [] c = "9" -> 9

\* \s of Python's re on str: the whitespace characters of the alphabet
IsSpace(c) == c \in {" ", "\n", "\t"}

\* re.IGNORECASE on the letters of the alphabet
Upper(c) ==
    CASE c = "t" -> "T" [] c = "w" -> "W" [] c = "c" -> "C" [] c = "n" -> "N"
      [] c = "r" -> "R" [] c = "m" -> "M" [] c = "b" -> "B" [] OTHER -> c

UpperStr(s) == [i \in 1..Len(s) |-> Upper(s[i])]

\* int() of a string of digits
RECURSIVE IntOf(_)
IntOf(s) == IF s = <<>> THEN 0
            ELSE 10 * IntOf(SubSeq(s, 1, Len(s) - 1)) + DigitVal(s[Len(s)])

\* s[i:] of Python, 1-based
From(s, i) == SubSeq(s, i, Len(s))

\* p occurs in s at position i
At(s, i, p) ==
    /\ i >= 1
    /\ i + Len(p) - 1 <= Len(s)
    /\ SubSeq(s, i, i + Len(p) - 1) = p

\* the same, ignoring case
AtNoCase(s, i, p) ==
    /\ i >= 1
    /\ i + Len(p) - 1 <= Len(s)
    /\ UpperStr(SubSeq(s, i, i + Len(p) - 1)) = UpperStr(p)

\* p in s
Contains(s, p) == \E i \in 1..(Len(s) + 1) : At(s, i, p)

\* s.startswith(p)
StartsWith(s, p) == At(s, 1, p)

\* str.strip()
RECURSIVE LStrip(_)
LStrip(s) == IF s # <<>> /\ IsSpace(s[1]) THEN LStrip(Tail(s)) ELSE s

RECURSIVE RStrip(_)
RStrip(s) == IF s # <<>> /\ IsSpace(s[Len(s)]) THEN RStrip(SubSeq(s, 1, Len(s) - 1)) ELSE s

Strip(s) == RStrip(LStrip(s))

\* the number of digits at s[i..], at most max: \d{1,max} taken greedily
RECURSIVE DigitRun(_, _, _)
DigitRun(s, i, max) ==
    IF max > 0 /\ i <= Len(s) /\ IsDigit(s[i]) THEN 1 + DigitRun(s, i + 1, max - 1) ELSE 0

\* the number of whitespace characters at s[i..]: \s*
RECURSIVE SpaceRun(_, _)
SpaceRun(s, i) == IF i <= Len(s) /\ IsSpace(s[i]) THEN 1 + SpaceRun(s, i + 1) ELSE 0

\* the number of digits at s[i..]: \d+ or \d*
RECURSIVE AllDigitRun(_, _)
AllDigitRun(s, i) == IF i <= Len(s) /\ IsDigit(s[i]) THEN 1 + AllDigitRun(s, i + 1) ELSE 0

NoMatch == [ok |-> FALSE]

\* the first of two match results that matched
FirstOk(a, b) == IF a.ok THEN a ELSE b

\* the least of a set of positions: the leftmost match, the first alternative
Leftmost(I) == CHOOSE i \in I : \A j \in I : i <= j

(***************************************************************************)
(* Calendar dates: datetime.date                                           *)
(***************************************************************************)
IsLeap(y) == (y % 4 = 0 /\ y % 100 # 0) \/ y % 400 = 0

DaysInMonth(y, m) ==
    IF m \in {4, 6, 9, 11} THEN 30
    ELSE IF m = 2 THEN (IF IsLeap(y) THEN 29 ELSE 28)
    ELSE 31

\* date(y, m, d) raises ValueError unless this holds
ValidDate(y, m, d) ==
    /\ y >= 1 /\ y <= 9999
    /\ m >= 1 /\ m <= 12
    /\ d >= 1 /\ d <= DaysInMonth(y, m)

MkDate(y, m, d) == [y |-> y, m |-> m, d |-> d]

DateLE(a, b) ==
    \/ a.y < b.y
    \/ a.y = b.y /\ a.m < b.m
    \/ a.y = b.y /\ a.m = b.m /\ a.d <= b.d

\* strftime('%m/%d'): the key of a day bucket; it drops the year
DayKey(dt) == <<dt.m, dt.d>>

DayKeyLT(a, b) == a[1] < b[1] \/ (a[1] = b[1] /\ a[2] < b[2])

(***************************************************************************)
(* utils.TransactionParser: the date patterns                              *)
(***************************************************************************)
\* (\d{1,2})<sep>(\d{1,2})<term> matched at position i: both groups greedy,
\* the first giving a digit back when the rest cannot match otherwise
MatchMD(s, i, sep, term) ==
    LET r1 == DigitRun(s, i, 2)
        Try(n1) ==
            LET j  == i + n1 + Len(sep)
                r2 == DigitRun(s, j, 2)
                n2 == IF r2 >= 2 /\ At(s, j + 2, term) THEN 2
                      ELSE IF r2 >= 1 /\ At(s, j + 1, term) THEN 1
                      ELSE 0
            IN  IF n1 >= 1 /\ n1 <= r1 /\ At(s, i + n1, sep) /\ n2 > 0
                THEN [ok |-> TRUE,
                      g |-> <<SubSeq(s, i, i + n1 - 1), SubSeq(s, j, j + n2 - 1)>>,
                      end |-> j + n2 + Len(term)]
                ELSE NoMatch
    IN  IF Try(2).ok THEN Try(2) ELSE Try(1)

\* (\d{4})-(\d{1,2})-(\d{1,2}) matched at position i
MatchYMD(s, i) ==
    IF DigitRun(s, i, 4) = 4 /\ At(s, i + 4, <<"-">>)
    THEN LET m == MatchMD(s, i + 5, <<"-">>, <<>>)
         IN  IF m.ok THEN [ok |-> TRUE, g |-> <<SubSeq(s, i, i + 3)>> \o m.g, end |-> m.end]
             ELSE NoMatch
    ELSE NoMatch

\* TransactionParser.DATE_PATTERNS, in order.  The separators of the fourth
\* pattern are the six characters the source file holds there.
DATE_PATTERNS ==
    << [kind |-> "MD",  sep |-> <<"/">>, term |-> <<>>],
       [kind |-> "YMD", sep |-> <<"-">>, term |-> <<>>],
       [kind |-> "MD",  sep |-> <<"-">>, term |-> <<>>],
       [kind |-> "MD",  sep |-> <<"xE6", "u0153", "u02C6">>,
                        term |-> <<"xE6", "u2014", "xA5">>] >>

MatchDateAt(p, s, i) ==
    IF p.kind = "YMD" THEN MatchYMD(s, i) ELSE MatchMD(s, i, p.sep, p.term)

\* re.search(pattern, text): the leftmost match
DateAmong(p, s, I) == IF I = {} THEN NoMatch ELSE MatchDateAt(p, s, Leftmost(I))

SearchDate(p, s) == DateAmong(p, s, {i \in 1..Len(s) : MatchDateAt(p, s, i).ok})

\* re.sub(pattern, '', text): every non-overlapping match removed, left to right
RECURSIVE SubDateFrom(_, _, _)
SubDateFrom(p, s, i) ==
    IF i > Len(s) THEN <<>>
    ELSE LET m == MatchDateAt(p, s, i)
         IN  IF m.ok THEN SubDateFrom(p, s, m.end)
             ELSE <<s[i]>> \o SubDateFrom(p, s, i + 1)

SubDate(p, s) == SubDateFrom(p, s, 1)

\* the date a match stands for: two groups take the current year
DateOfMatch(m, year) ==
    IF Len(m.g) = 2 THEN MkDate(year, IntOf(m.g[1]), IntOf(m.g[2]))
    ELSE MkDate(IntOf(m.g[1]), IntOf(m.g[2]), IntOf(m.g[3]))

\* the loop over DATE_PATTERNS of parse_transaction: the first pattern whose
\* leftmost match is a calendar date wins and all its matches are cut out of
\* the text; a match that is no calendar date (ValueError) moves on to the
\* next pattern and leaves the text alone
RECURSIVE ParseDateFrom(_, _, _)
DateLoopOn(t, k, year, p, m) ==
    IF m.ok /\ LET dt == DateOfMatch(m, year) IN ValidDate(dt.y, dt.m, dt.d)
    THEN [found |-> TRUE, date |-> DateOfMatch(m, year), text |-> Strip(SubDate(p, t))]
    ELSE ParseDateFrom(t, k + 1, year)

ParseDateFrom(t, k, year) ==
    IF k > Len(DATE_PATTERNS) THEN [found |-> FALSE, text |-> t]
    ELSE DateLoopOn(t, k, year, DATE_PATTERNS[k], SearchDate(DATE_PATTERNS[k], t))

(***************************************************************************)
(* utils.TransactionParser: currency, sign and amount                      *)
(***************************************************************************)
Currencies == <<"TW", "CN">>

\* CURRENCY_PATTERNS: the alternatives of each currency, in order
CURRENCY_PATTERNS(cur) ==
    IF cur = "TW"
    THEN << <<"T", "W">>,
            <<"xE5", "xB0", "xE5", "xB9", "xA3">>,
            <<"xE8", "u2021", "xBA", "xE5", "xB9", "xA3">> >>
    ELSE << <<"C", "N">>,
            <<"xE4", "xBA", "xBA", "xE6", "xB0", "u2018", "xE5", "xB9", "xA3">>,
            <<"R", "M", "B">> >>

TransKeys == <<"income", "expense">>

\* TRANSACTION_PATTERNS: the character class of each kind
TRANSACTION_PATTERNS(kind) ==
    IF kind = "income" THEN {"+", "xEF", "xBC", "u2039"} ELSE {"-", "xEF", "xBC"}

\* the same patterns as the strings `trans_pattern in text` looks for
TransPatternSource(kind) ==
    IF kind = "income" THEN <<"[", "\\", "+", "xEF", "xBC", "u2039", "]">>
    ELSE <<"[", "\\", "-", "xEF", "xBC", "]">>

\* the position after the currency token at s[i..], 0 when there is none
\* (re.IGNORECASE)
CurrencyEnd(s, i, alts) ==
    LET K == {k \in 1..Len(alts) : AtNoCase(s, i, alts[k])}
    IN  IF K = {} THEN 0
        ELSE i + Len(alts[CHOOSE k \in K : \A l \in K : k <= l])

\* \d+(?:\.\d+)? at position k
NumberEnd(s, k, n) ==
    IF At(s, k + n, <<".">>) /\ AllDigitRun(s, k + n + 1) > 0
    THEN k + n + 1 + AllDigitRun(s, k + n + 1)
    ELSE k + n

\* the match of a pattern that ends with a number: its text and its end
NumberMatch(s, k, e) == [ok |-> TRUE, str |-> SubSeq(s, k, e - 1), end |-> e]

MatchNumber(s, k) ==
    IF AllDigitRun(s, k) = 0 THEN NoMatch
    ELSE NumberMatch(s, k, NumberEnd(s, k, AllDigitRun(s, k)))

\* (-?\d+(?:\.\d+)?) at position k
MatchSignedNumber(s, k) ==
    IF At(s, k, <<"-">>)
    THEN (IF MatchNumber(s, k + 1).ok
          THEN NumberMatch(s, k, NumberEnd(s, k + 1, AllDigitRun(s, k + 1)))
          ELSE NoMatch)
    ELSE MatchNumber(s, k)

\* float(amount_str), for the literals of the alphabet (no fraction point)
RECURSIVE IntPart(_)
IntPart(s) == IF s = <<>> \/ ~IsDigit(s[1]) THEN <<>> ELSE <<s[1]>> \o IntPart(Tail(s))

FloatOf(s) == IF s # <<>> /\ s[1] = "-" THEN 0 - IntOf(IntPart(Tail(s))) ELSE IntOf(IntPart(s))

Abs(x) == IF x < 0 THEN 0 - x ELSE x

\* <token>\s*(?:<sign class>\s*)?(-?\d+(?:\.\d+)?) at position i, the token
\* being one of alts
SignedAfterToken(s, j, kind) ==
    LET k == j + SpaceRun(s, j)
    IN  IF j = 0 THEN NoMatch
        ELSE FirstOk(IF k <= Len(s) /\ s[k] \in TRANSACTION_PATTERNS(kind)
                     THEN MatchSignedNumber(s, k + 1 + SpaceRun(s, k + 1))
                     ELSE NoMatch,
                     MatchSignedNumber(s, k))

MatchTokenSigned(s, i, alts, kind) == SignedAfterToken(s, CurrencyEnd(s, i, alts), kind)

\* re.search of that pattern: the leftmost match
TokenSignedAmong(s, I, alts, kind) ==
    IF I = {} THEN NoMatch ELSE MatchTokenSigned(s, Leftmost(I), alts, kind)

SearchTokenSigned(s, alts, kind) ==
    TokenSignedAmong(s, {i \in 1..Len(s) : MatchTokenSigned(s, i, alts, kind).ok}, alts, kind)

SearchCurrencySigned(s, cur, kind) == SearchTokenSigned(s, CURRENCY_PATTERNS(cur), kind)

\* <currency>\s*([\d]+(?:\.\d+)?) at position i
PlainAfterToken(s, j) ==
    IF j = 0 THEN NoMatch ELSE MatchNumber(s, j + SpaceRun(s, j))

MatchCurrencyPlain(s, i, cur) == PlainAfterToken(s, CurrencyEnd(s, i, CURRENCY_PATTERNS(cur)))

CurrencyPlainAmong(s, I, cur) ==
    IF I = {} THEN NoMatch ELSE MatchCurrencyPlain(s, Leftmost(I), cur)

SearchCurrencyPlain(s, cur) ==
    CurrencyPlainAmong(s, {i \in 1..Len(s) : MatchCurrencyPlain(s, i, cur).ok}, cur)

\* the body of the first loop for one match: kind and amount
SignedResult(t, cur, kind, m) ==
    LET amount_val == FloatOf(m.str)
        ttype == IF Contains(t, TransPatternSource(kind)) \/ amount_val < 0
                 THEN (IF amount_val < 0 THEN "expense" ELSE kind)
                 ELSE "income"
    IN  [ok |-> TRUE, currency |-> cur, amount |-> Abs(amount_val),
         transaction_type |-> ttype]

\* "First try with explicit + or - signs": currencies in order, kinds in
\* order, the first pattern that matches anywhere in the text decides
RECURSIVE FirstLoopFrom(_, _)
FirstLoopOn(t, n, cur, kind, m) ==
    IF m.ok THEN SignedResult(t, cur, kind, m) ELSE FirstLoopFrom(t, n + 1)

FirstLoopFrom(t, n) ==
    IF n > 4 THEN NoMatch
    ELSE LET cur  == Currencies[((n - 1) \div 2) + 1]
             kind == TransKeys[((n - 1) % 2) + 1]
         IN  FirstLoopOn(t, n, cur, kind, SearchCurrencySigned(t, cur, kind))

FirstLoop(t) == FirstLoopFrom(t, 1)

\* "If no explicit sign found, try default format": expense for CN, income for TW
RECURSIVE SecondLoopFrom(_, _)
SecondLoopOn(t, n, cur, m) ==
    IF m.ok
    THEN [ok |-> TRUE, currency |-> cur, amount |-> FloatOf(m.str),
          transaction_type |-> IF cur = "CN" THEN "expense" ELSE "income"]
    ELSE SecondLoopFrom(t, n + 1)

SecondLoopFrom(t, n) ==
    IF n > 2 THEN NoMatch
    ELSE SecondLoopOn(t, n, Currencies[n], SearchCurrencyPlain(t, Currencies[n]))

SecondLoop(t) == SecondLoopFrom(t, 1)

\* pattern_neg_amount: (-)(?:(TW|..|CN|..|RMB)\s*)?(\d+(?:\.\d+)?) at position i
NegAlternatives == CURRENCY_PATTERNS("TW") \o CURRENCY_PATTERNS("CN")

NegAmountWith(s, i, K) ==
    IF ~At(s, i, <<"-">>) THEN NoMatch
    ELSE IF K # {} /\ PlainAfterToken(s, i + 1 + Len(NegAlternatives[Leftmost(K)])).ok
         THEN [ok |-> TRUE,
               curr_text |-> SubSeq(s, i + 1, i + Len(NegAlternatives[Leftmost(K)])),
               str |-> PlainAfterToken(s, i + 1 + Len(NegAlternatives[Leftmost(K)])).str]
    ELSE IF MatchNumber(s, i + 1).ok
         THEN [ok |-> TRUE, curr_text |-> <<>>, str |-> MatchNumber(s, i + 1).str]
    ELSE NoMatch

MatchNegAmount(s, i) ==
    NegAmountWith(s, i, {k \in 1..Len(NegAlternatives) : AtNoCase(s, i + 1, NegAlternatives[k])})

NegAmountAmong(s, I) == IF I = {} THEN NoMatch ELSE MatchNegAmount(s, Leftmost(I))

SearchNegAmount(s) == NegAmountAmong(s, {i \in 1..Len(s) : MatchNegAmount(s, i).ok})

\* "Try parsing format like -500 or -CN500": the amount is written negative
NegCurrency(curr_text) ==
    IF curr_text = <<>> THEN "TW"
    ELSE IF \E k \in 1..3 : UpperStr(curr_text) = CURRENCY_PATTERNS("TW")[k] THEN "TW"
    ELSE IF \E k \in 1..3 : UpperStr(curr_text) = CURRENCY_PATTERNS("CN")[k] THEN "CN"
    ELSE None

NegResult(m) ==
    IF ~m.ok \/ NegCurrency(m.curr_text) = None THEN NoMatch
    ELSE [ok |-> TRUE, currency |-> NegCurrency(m.curr_text), amount |-> 0 - FloatOf(m.str),
          transaction_type |-> "expense"]

NegBranch(t) == NegResult(SearchNegAmount(t))

\* the "@handle " prefix: text.split(' ', 1)
FirstSpace(s) ==
    LET I == {i \in 1..Len(s) : s[i] = " "}
    IN  IF I = {} THEN 0 ELSE CHOOSE i \in I : \A j \in I : i <= j

SplitMention(s) ==
    IF StartsWith(s, <<"@">>) /\ FirstSpace(s) > 0
    THEN [mentioned_user |-> SubSeq(s, 2, FirstSpace(s) - 1), text |-> From(s, FirstSpace(s) + 1)]
    ELSE [mentioned_user |-> <<>>, text |-> s]

\* a parser whose default is not the current day: no date token dates the
\* entry at the first day of the year
TransactionDateNoDefault(d, now) == IF d.found THEN d.date ELSE MkDate(now.y, 1, 1)

\* the date of the entry: the date token, else date.today()
TransactionDate(d, now) == IF d.found THEN d.date ELSE now

\* TransactionParser.parse_transaction(text, user_id), called on the day `now`
ParseAmount(t) == FirstOk(FirstLoop(t), FirstOk(SecondLoop(t), NegBranch(t)))

\* lines 213-224: no currency or no amount is no transaction
ParseResult(mentioned_user, d, r, user_id, now) ==
    IF ~r.ok THEN NoMatch
    ELSE [ok |-> TRUE,
          user_id |-> user_id,
          mentioned_user |-> mentioned_user,
          date |-> TransactionDate(d, now),
          currency |-> r.currency,
          amount |-> r.amount,
          transaction_type |-> r.transaction_type,
          original_text |-> d.text]

ParseDated(mentioned_user, d, user_id, now) ==
    ParseResult(mentioned_user, d, ParseAmount(d.text), user_id, now)

parse_transaction(t, user_id, now) ==
    LET sm == SplitMention(Strip(t))
    IN  ParseDated(sm.mentioned_user, ParseDateFrom(sm.text, 1, now.y), user_id, now)

\* parse_fund_command: the alternatives of each fund type, as the source file
\* holds them
FundTypes == <<"public", "private">>

fund_patterns(ft) ==
    IF ft = "public"
    THEN << <<"xE5", "u2026", "xAC", "xE6", "xA1", "xB6">>,
            <<"xE5", "u2026", "xAC", "xE5", "u2026", "xB1">> >>
    ELSE << <<"xE7", "xA7", "xE4", "xBA", "xBA">>,
            <<"xE5", "u20AC", "u2039", "xE4", "xBA", "xBA">> >>

RECURSIVE FundLoopFrom(_, _)
FundLoopOn(t, n, ft, kind, m) ==
    LET amount_val == FloatOf(m.str)
        operation == IF Contains(t, TransPatternSource(kind)) \/ amount_val < 0
                     THEN (IF amount_val < 0 THEN "expense" ELSE kind)
                     ELSE "income"
    IN  IF m.ok
        THEN [ok |-> TRUE, fund_type |-> ft, operation |-> operation,
              amount |-> Abs(amount_val)]
        ELSE FundLoopFrom(t, n + 1)

FundLoopFrom(t, n) ==
    IF n > 4 THEN NoMatch
    ELSE LET ft   == FundTypes[((n - 1) \div 2) + 1]
             kind == TransKeys[((n - 1) % 2) + 1]
         IN  FundLoopOn(t, n, ft, kind, SearchTokenSigned(t, fund_patterns(ft), kind))

\* TransactionParser.parse_fund_command(text)
parse_fund_command(t) == FundLoopFrom(Strip(t), 1)

(***************************************************************************)
(* handlers.BotHandlers: the texts the message handler compares with       *)
(***************************************************************************)
KW_Item == <<"u9805", "u76EE">>
KW_Amount == <<"u91D1", "u984D">>
KW_Restart == <<"/", "r", "e", "s", "t", "a", "r", "t", "@", "N", "o", "r", "t", "h", "S", "e", "a", "8", "8", "_", "B", "o", "t">>
KW_Menu == <<"u1F4DD", "u9078", "u55AE">>
KW_PayoutReport == <<"u1F4CA", "u51FA", "u6B3E", "u5831", "u8868">>
KW_Set == <<"u8A2D", "u5B9A">>
KW_Rate == <<"u532F", "u7387">>
KW_RateSet == <<"u532F", "u7387", "u8A2D", "u5B9A">>
KW_CNRate == <<"C", "N", "u532F", "u7387">>
KW_Delete == <<"u522A", "u9664">>
KW_Month == <<"u6708">>
KW_Report == <<"u5831", "u8868">>
KW_UserSettings == <<"u4F7F", "u7528", "u8005", "u8A2D", "u5B9A">>
KW_Welcome == <<"u6B61", "u8FCE", "u8A5E", "u8A2D", "u5B9A">>
KW_List == <<"u5217", "u8868">>
KW_FleetReport == <<"u8ECA", "u968A", "u5831", "u8868">>
KW_InitReport == <<"u521D", "u59CB", "u5316", "u5831", "u8868">>

\* _parse_financial_record: r'金額[：:]\s*(\d+)' at position i
MatchRecordAmount(s, i) ==
    LET j == i + Len(KW_Amount)
        k == j + 1 + SpaceRun(s, j + 1)
        n == AllDigitRun(s, k)
    IN  IF At(s, i, KW_Amount) /\ j <= Len(s) /\ s[j] \in {"uFF1A", ":"} /\ n > 0
        THEN [ok |-> TRUE, amount |-> IntOf(SubSeq(s, k, k + n - 1))]
        ELSE NoMatch

\* BotHandlers._parse_financial_record(text): the fields the handler stores
parse_financial_record(t) ==
    LET I == {i \in 1..Len(t) : MatchRecordAmount(t, i).ok}
    IN  IF ~(Contains(t, KW_Item) /\ Contains(t, KW_Amount)) \/ I = {} THEN NoMatch
        ELSE MatchRecordAmount(t, CHOOSE i \in I : \A j \in I : i <= j)

\* (\d+\.?\d*) at position k
MatchRate(s, k) ==
    LET n == AllDigitRun(s, k)
        dot == IF At(s, k + n, <<".">>) THEN 1 ELSE 0
        f == IF dot = 1 THEN AllDigitRun(s, k + n + 1) ELSE 0
    IN  IF n = 0 THEN NoMatch
        ELSE [ok |-> TRUE, int |-> SubSeq(s, k, k + n - 1),
              frac |-> SubSeq(s, k + n + dot, k + n + dot + f - 1)]

\* float(match.group(..)) of a rate, in units of 0.00001; the literals of
\* the alphabet carry at most five decimals
RECURSIVE RateOfDigits(_, _)
RateOfDigits(ds, unit) ==
    IF ds = <<>> \/ unit = 0 THEN 0
    ELSE unit * DigitVal(Head(ds)) + RateOfDigits(Tail(ds), unit \div 10)

RateOf(m) == 100000 * IntOf(m.int) + RateOfDigits(m.frac, 10000)

(***************************************************************************)
(* The store: DatabaseManager (sqlite) and RailwayDatabaseManager          *)
(***************************************************************************)
Backends == {"sqlite", "railway"}

\* add_transaction: one more row at the end of the table
add_transaction(tbl, user_id, group_id, transaction_date, currency, amount, transaction_type, created_by) ==
    Append(tbl, [user_id |-> user_id, group_id |-> group_id, date |-> transaction_date,
                 currency |-> currency, amount |-> amount,
                 transaction_type |-> transaction_type, created_by |-> created_by])

\* the WHERE clause of delete_transaction
DeleteMatches(r, user_id, transaction_date, currency, amount) ==
    /\ r.user_id = user_id
    /\ r.date = transaction_date
    /\ r.currency = currency
    /\ r.amount = amount

\* a DELETE whose WHERE clause leaves the amount out
delete_transaction_any_amount(tbl, user_id, transaction_date, currency, amount) ==
    LET Keep(r) == ~(r.user_id = user_id /\ r.date = transaction_date /\ r.currency = currency)
    IN  SelectSeq(tbl, Keep)

\* delete_transaction: the table afterwards; the call answers rowcount > 0
delete_transaction(tbl, user_id, transaction_date, currency, amount) ==
    LET Keep(r) == ~DeleteMatches(r, user_id, transaction_date, currency, amount)
    IN  SelectSeq(tbl, Keep)

\* the WHERE clause of delete_monthly_transactions with a currency
MonthlyMatches(r, user_id, month, year, currency) ==
    /\ r.user_id = user_id
    /\ r.date.m = month
    /\ r.date.y = year
    /\ r.currency = currency

\* delete_monthly_transactions(user_id, month, year), the currency left out
delete_monthly_transactions_all(tbl, user_id, month, year) ==
    LET Keep(r) == ~(r.user_id = user_id /\ r.date.m = month /\ r.date.y = year)
    IN  SelectSeq(tbl, Keep)

delete_monthly_transactions(tbl, user_id, month, year, currency) ==
    LET Keep(r) == ~MonthlyMatches(r, user_id, month, year, currency)
    IN  SelectSeq(tbl, Keep)

\* the value the rate column holds: REAL in the sqlite store, DECIMAL(10,4)
\* in the railway store, which rounds to four decimals
StoredRate(be, rate) == IF be = "railway" THEN ((rate + 5) \div 10) * 10 ELSE rate

\* a plain INSERT, the row of the same date and currency left in place
set_exchange_rate_insert(be, tbl, rate_date, rate, currency) ==
    tbl \cup {[date |-> rate_date, currency |-> currency, rate |-> StoredRate(be, rate)]}

\* set_exchange_rate: INSERT OR REPLACE / ON CONFLICT (date, currency) DO UPDATE
set_exchange_rate(be, tbl, rate_date, rate, currency) ==
    {r \in tbl : ~(r.date = rate_date /\ r.currency = currency)}
    \cup {[date |-> rate_date, currency |-> currency, rate |-> StoredRate(be, rate)]}

\* the selection without its date bound: WHERE currency = ?
RateCandidatesAnyDate(tbl, rate_date, currency) ==
    {r \in tbl : r.currency = currency}

\* the rows get_exchange_rate selects from: WHERE date <= ? AND currency = ?
RateCandidates(tbl, rate_date, currency) ==
    {r \in tbl : DateLE(r.date, rate_date) /\ r.currency = currency}

\* get_exchange_rate: ORDER BY date DESC LIMIT 1; no row answers None
get_exchange_rate(tbl, rate_date, currency) ==
    LET C == RateCandidates(tbl, rate_date, currency)
    IN  IF C = {} THEN [found |-> FALSE]
        ELSE [found |-> TRUE,
              rate |-> (CHOOSE r \in C : \A q \in C : DateLE(q.date, r.date)).rate]

\* the fallback rates: 30.0 for TW and 7.0 for CN
FallbackTW == 3000000

FallbackCN == 700000

Fallback(currency) == IF currency = "TW" THEN FallbackTW ELSE FallbackCN

\* the LIMIT of the second query of get_latest_exchange_rates
LatestLimit == 10

\* the rows the second query of get_latest_exchange_rates returns: WHERE
\* date <= ? ORDER BY date DESC, created_at DESC LIMIT 10.  Rows of one date
\* are ordered by created_at, which the table of the model does not keep; a
\* row counts as cut off when LatestLimit other rows are dated no earlier.
RecentRows(tbl, rate_date) ==
    LET C == {r \in tbl : DateLE(r.date, rate_date)}
    IN  {r \in C : Cardinality({q \in C : q # r /\ DateLE(r.date, q.date)}) < LatestLimit}

\* RailwayDatabaseManager.get_latest_exchange_rates(rate_date): the rows of
\* that very date if there are any, else the most recent rows; a currency
\* that found none takes the fallback.  failed: the query raised.
get_latest_exchange_rates(tbl, rate_date, failed) ==
    LET same   == {r \in tbl : r.date = rate_date}
        rows   == IF same # {} THEN same ELSE RecentRows(tbl, rate_date)
        Of(cur) ==
            LET C == {r \in rows : r.currency = cur}
            IN  IF C = {} THEN Fallback(cur)
                ELSE (CHOOSE r \in C : \A q \in C : DateLE(q.date, r.date)).rate
    IN  IF failed THEN [TWD |-> FallbackTW, CNY |-> FallbackCN]
        ELSE [TWD |-> Of("TW"), CNY |-> Of("CN")]

\* the resolver of the fleet report: get_exchange_rate(day, currency) or the
\* fallback; a stored rate of 0 is falsy and takes the fallback as well
ResolveRate(tbl, day, currency) ==
    LET r == get_exchange_rate(tbl, day, currency)
    IN  IF r.found /\ r.rate # 0 THEN r.rate ELSE Fallback(currency)

\* get_fund_balance: {currency: amount} over the rows of the fund, a later
\* row of a currency replacing an earlier one; here the 'TW' entry, 0 without
FundBalanceTW(tbl, fund_type, group_id) ==
    LET I == {i \in 1..Len(tbl) : /\ tbl[i].fund_type = fund_type
                                   /\ tbl[i].group_id = group_id
                                   /\ tbl[i].currency = "TW"}
    IN  IF I = {} THEN 0 ELSE tbl[CHOOSE i \in I : \A j \in I : j <= i].amount

\* update_fund: sqlite inserts a row (the table has no unique key), railway
\* replaces the row of (fund_type, currency, group_id)
update_fund(be, tbl, fund_type, amount, currency, group_id) ==
    LET row == [fund_type |-> fund_type, amount |-> amount, currency |-> currency,
                group_id |-> group_id]
        Other(r) == ~(r.fund_type = fund_type /\ r.currency = currency /\ r.group_id = group_id)
    IN  IF be = "sqlite" THEN Append(tbl, row)
        ELSE Append(SelectSeq(tbl, Other), row)

\* the rows of a month
InMonth(r, month, year) == r.date.m = month /\ r.date.y = year

\* ORDER BY date DESC: the latest date first, rows of one date in table order
RECURSIVE OrderByDateDesc(_)
OrderByDateDesc(s) ==
    IF s = <<>> THEN <<>>
    ELSE LET i == CHOOSE i \in 1..Len(s) :
                      /\ \A j \in 1..Len(s) : DateLE(s[j].date, s[i].date)
                      /\ \A j \in 1..(i - 1) : s[j].date # s[i].date
         IN  <<s[i]>> \o OrderByDateDesc(SubSeq(s, 1, i - 1) \o SubSeq(s, i + 1, Len(s)))

\* get_all_groups_transactions(month, year), both arguments given
get_all_groups_transactions(tbl, month, year) ==
    LET Sel(r) == InMonth(r, month, year)
    IN  OrderByDateDesc(SelectSeq(tbl, Sel))

\* get_group_transactions(group_id) without month and year: sqlite keeps the
\* rows of the current month, railway keeps every row of the group
get_group_transactions(be, tbl, group_id, now) ==
    LET Sel(r) == /\ r.group_id = group_id
                  /\ be = "sqlite" => InMonth(r, now.m, now.y)
    IN  OrderByDateDesc(SelectSeq(tbl, Sel))

\* get_user_transactions(user_id, group_id, month, year): a group_id of 0 or
\* None does not filter; month 0 stands for month and year left out
get_user_transactions(be, tbl, user_id, group_id, month, year, now) ==
    LET Sel(r) == /\ r.user_id = user_id
                  /\ group_id # 0 => r.group_id = group_id
                  /\ month # 0 => InMonth(r, month, year)
                  /\ (month = 0 /\ be = "sqlite") => InMonth(r, now.m, now.y)
    IN  OrderByDateDesc(SelectSeq(tbl, Sel))

(***************************************************************************)
(* Settlement amounts: exact fractions                                     *)
(***************************************************************************)
RECURSIVE GCD(_, _)
GCD(a, b) == IF b = 0 THEN a ELSE GCD(b, a % b)

\* n / d in lowest terms, d > 0
Frac(n, d) == LET g == GCD(Abs(n), d) IN [n |-> n \div g, d |-> d \div g]

Zero == Frac(0, 1)

FracAdd(x, y) ==
    LET g == GCD(x.d, y.d)
    IN  Frac(x.n * (y.d \div g) + y.n * (x.d \div g), (x.d \div g) * y.d)

\* amount / rate if amount > 0 else 0, the rate being in units of 0.00001
ToUSDT(amount, rate) == IF amount > 0 THEN Frac(amount * 100000, rate) ELSE Zero

\* amount / rate raises ZeroDivisionError
DivisionFails(amount, rate) == amount > 0 /\ rate = 0

(***************************************************************************)
(* The report formatters                                                   *)
(***************************************************************************)
\* the sum of the income amounts of a currency, over the rows that pass Sel
RECURSIVE IncomeSum(_, _, _)
IncomeSum(rows, currency, day) ==
    IF rows = <<>> THEN 0
    ELSE (IF /\ Head(rows).transaction_type = "income"
             /\ Head(rows).currency = currency
             /\ (day = <<>> \/ DayKey(Head(rows).date) = day)
          THEN Head(rows).amount ELSE 0)
         + IncomeSum(Tail(rows), currency, day)

\* overall_totals / totals: the income of each currency
IncomeTotals(rows) ==
    [TW |-> IncomeSum(rows, "TW", <<>>), CN |-> IncomeSum(rows, "CN", <<>>)]

\* sorted(keys): the day keys in the order of their 'MM/DD' strings
RECURSIVE SortedKeys(_)
SortedKeys(K) ==
    IF K = {} THEN <<>>
    ELSE LET k == CHOOSE k \in K : \A l \in K : l = k \/ DayKeyLT(k, l)
         IN  <<k>> \o SortedKeys(K \ {k})

\* the sum of the settlement amounts of the day blocks
RECURSIVE SumUSDT(_, _)
SumUSDT(days, currency) ==
    IF days = <<>> THEN Zero
    ELSE FracAdd(Head(days).usdt[currency], SumUSDT(Tail(days), currency))

\* the detail lines under a day block, one per owner (the group in the fleet
\* report, the user in the group report): the owner's income of the day in
\* TW and in CN.  The dict of a line has the keys 'TW' and 'CN' only: an
\* income row of the day in another currency raises KeyError while the lines
\* are collected, and the except of the day block drops them all.
DetailLines(rows, key, owner) ==
    LET I == {i \in 1..Len(rows) : /\ rows[i].transaction_type = "income"
                                   /\ DayKey(rows[i].date) = key}
        Lines(O) ==
            {[owner |-> o,
              TW |-> IncomeSum(SelectSeq(rows, LAMBDA r : r[owner] = o), "TW", key),
              CN |-> IncomeSum(SelectSeq(rows, LAMBDA r : r[owner] = o), "CN", key)] : o \in O}
    IN  IF \E i \in I : rows[i].currency \notin {"TW", "CN"} THEN {}
        ELSE Lines({rows[i][owner] : i \in I})

\* the year the fleet report builds the date of a day bucket in
FleetYear == 2025

\* the fleet report's day block of a bucket: the rates of that date, the
\* subtotals and their conversion
FleetDay(rows, rates, key) ==
    LET date_obj == MkDate(FleetYear, key[1], key[2])
        tw == IncomeSum(rows, "TW", key)
        cn == IncomeSum(rows, "CN", key)
        tw_rate == ResolveRate(rates, date_obj, "TW")
        cn_rate == ResolveRate(rates, date_obj, "CN")
    IN  [key |-> key,
         rate |-> [TW |-> tw_rate, CN |-> cn_rate],
         sub |-> [TW |-> tw, CN |-> cn],
         usdt |-> [TW |-> ToUSDT(tw, tw_rate), CN |-> ToUSDT(cn, cn_rate)],
         details |-> DetailLines(rows, key, "group_id")]

\* the day buckets of the fleet report.  With the sqlite store every row
\* raises on its way into a bucket (the date comes back as a string and the
\* name datetime is not yet bound; get_user_display_name is missing too), so
\* no bucket is made.  A bucket whose key is no date of FleetYear is skipped.
FleetDays(be, rows, rates) ==
    LET K == IF be = "sqlite" THEN {}
             ELSE {DayKey(rows[i].date) : i \in {j \in 1..Len(rows) : rows[j].transaction_type = "income"}}
        keys == SortedKeys({k \in K : ValidDate(FleetYear, k[1], k[2])})
    IN  [i \in 1..Len(keys) |-> FleetDay(rows, rates, keys[i])]

\* the headline converted once: the grand total at the rate of the first day
FleetHeadlineSingleRate(days, totals, currency) ==
    IF days = <<>> THEN Zero ELSE ToUSDT(totals[currency], days[1].rate[currency])

\* tw_usdt_total / cn_usdt_total of the fleet report: accumulated day by day
FleetHeadlineUSDT(days, totals, currency) == SumUSDT(days, currency)

\* FleetReportFormatter.format_comprehensive_fleet_report(month, year)
format_comprehensive_fleet_report(be, tbl, rates, month, year) ==
    LET rows == get_all_groups_transactions(tbl, month, year)
        days == FleetDays(be, rows, rates)
        totals == IncomeTotals(rows)
    IN  IF rows = <<>> THEN [empty |-> TRUE, title |-> "fleet report 2025/6"]
        ELSE [empty |-> FALSE, title |-> "fleet report 2025/6",
              totals |-> totals, days |-> days,
              usdt |-> [TW |-> FleetHeadlineUSDT(days, totals, "TW"),
                        CN |-> FleetHeadlineUSDT(days, totals, "CN")]]

\* the "mock rates" of the group report's headline, 33.33 and
\* 7.5 for the day key 06/01, else 30.0 and 7.0
MockTW == 3333000

MockCN == 750000

MockRate(key, currency) ==
    IF key = <<6, 1>> THEN (IF currency = "TW" THEN MockTW ELSE MockCN)
    ELSE Fallback(currency)

\* the day keys of the rows that pass the income filter, or of all rows
DayKeys(rows, income_only) ==
    {DayKey(rows[i].date) :
        i \in {j \in 1..Len(rows) : ~income_only \/ rows[j].transaction_type = "income"}}

\* tw_usdt_total / cn_usdt_total of the group report: the income of each day
\* key converted at the mock rate of the key
RECURSIVE GroupHeadlineFrom(_, _, _)
GroupHeadlineFrom(rows, keys, currency) ==
    IF keys = <<>> THEN Zero
    ELSE FracAdd(ToUSDT(IncomeSum(rows, currency, Head(keys)), MockRate(Head(keys), currency)),
                 GroupHeadlineFrom(rows, Tail(keys), currency))

GroupHeadlineUSDT(rows, currency) ==
    GroupHeadlineFrom(rows, SortedKeys(DayKeys(rows, TRUE)), currency)

\* the day block of the group report: the rates are asked for date_obj, the
\* variable the loop over the transactions left behind
GroupDay(rows, rates, key, date_obj) ==
    LET day_rates == get_latest_exchange_rates(rates, date_obj, FALSE)
        tw == IncomeSum(rows, "TW", key)
        cn == IncomeSum(rows, "CN", key)
    IN  [key |-> key,
         rate |-> [TW |-> day_rates.TWD, CN |-> day_rates.CNY],
         sub |-> [TW |-> tw, CN |-> cn],
         usdt |-> [TW |-> ToUSDT(tw, day_rates.TWD), CN |-> ToUSDT(cn, day_rates.CNY)],
         details |-> DetailLines(rows, key, "user_id")]

\* the day blocks of the group report.  The sqlite store has no
\* get_latest_exchange_rates: every day raises and is skipped; so is a day
\* whose division raises.
GroupDays(be, rows, rates) ==
    LET date_obj == rows[Len(rows)].date
        all  == SortedKeys(DayKeys(rows, FALSE))
        Shown(key) ==
            LET day_rates == get_latest_exchange_rates(rates, date_obj, FALSE)
            IN  /\ be # "sqlite"
                /\ ~DivisionFails(IncomeSum(rows, "TW", key), day_rates.TWD)
                /\ ~DivisionFails(IncomeSum(rows, "CN", key), day_rates.CNY)
        keys == SelectSeq(all, Shown)
    IN  [i \in 1..Len(keys) |-> GroupDay(rows, rates, keys[i], date_obj)]

\* format_new_group_report(transactions, group_name, db_manager)
format_new_group_report(be, rows, rates) ==
    IF rows = <<>> THEN [empty |-> TRUE, title |-> "{group_name} report"]
    ELSE [empty |-> FALSE, title |-> "{group_name} group report 2025/6",
          totals |-> IncomeTotals(rows),
          days |-> GroupDays(be, rows, rates),
          usdt |-> [TW |-> GroupHeadlineUSDT(rows, "TW"),
                    CN |-> GroupHeadlineUSDT(rows, "CN")]]

\* the day lines of the personal report: the days with income, amounts only
PersonalDays(rows) ==
    LET all  == SortedKeys(DayKeys(rows, FALSE))
        Shown(key) == IncomeSum(rows, "TW", key) > 0 \/ IncomeSum(rows, "CN", key) > 0
        keys == SelectSeq(all, Shown)
    IN  [i \in 1..Len(keys) |->
            [key |-> keys[i],
             sub |-> [TW |-> IncomeSum(rows, "TW", keys[i]),
                      CN |-> IncomeSum(rows, "CN", keys[i])]]]

\* tw_usdt / cn_usdt of the personal report: the total at the fixed rate
PersonalHeadlineUSDT(rows, currency) ==
    ToUSDT(IncomeSum(rows, currency, <<>>), Fallback(currency))

\* PersonalReportFormatter.format_personal_report(transactions, ..)
format_personal_report(rows) ==
    IF rows = <<>> THEN [empty |-> TRUE, title |-> "{user_name} personal report"]
    ELSE [empty |-> FALSE, title |-> "{user_name} personal report ({group_name})",
          totals |-> IncomeTotals(rows),
          days |-> PersonalDays(rows),
          usdt |-> [TW |-> PersonalHeadlineUSDT(rows, "TW"),
                    CN |-> PersonalHeadlineUSDT(rows, "CN")]]

(***************************************************************************)
(* handlers.BotHandlers: the directives of a text message                  *)
(***************************************************************************)
\* the date a "M/D" group stands for in the current year; date() raises
\* ValueError when it is no calendar date
DirectiveDate(g, now) == MkDate(now.y, IntOf(g[1]), IntOf(g[2]))

DirectiveDateValid(g, now) == ValidDate(now.y, IntOf(g[1]), IntOf(g[2]))

\* _handle_exchange_rate_setting: the four re.match patterns, in order
handle_exchange_rate_setting(t, now) ==
    LET m1  == IF At(t, 1, KW_Set \o KW_Rate)
               THEN MatchRate(t, 1 + Len(KW_Set \o KW_Rate)) ELSE NoMatch
        d2  == IF At(t, 1, KW_Set) THEN MatchMD(t, 1 + Len(KW_Set), <<"/">>, KW_Rate) ELSE NoMatch
        m2  == IF d2.ok THEN MatchRate(t, d2.end) ELSE NoMatch
        m3  == IF At(t, 1, KW_Set \o KW_CNRate)
               THEN MatchRate(t, 1 + Len(KW_Set \o KW_CNRate)) ELSE NoMatch
        d4  == IF At(t, 1, KW_Set) THEN MatchMD(t, 1 + Len(KW_Set), <<"/">>, KW_CNRate) ELSE NoMatch
        m4  == IF d4.ok THEN MatchRate(t, d4.end) ELSE NoMatch
        Dated(d, m, cur) ==
            IF DirectiveDateValid(d.g, now)
            THEN [kind |-> "set_rate", date |-> DirectiveDate(d.g, now), currency |-> cur,
                  rate |-> RateOf(m)]
            ELSE [kind |-> "rate_failed"]
    IN  IF m1.ok THEN [kind |-> "set_rate", date |-> now, currency |-> "TW", rate |-> RateOf(m1)]
        ELSE IF m2.ok THEN Dated(d2, m2, "TW")
        ELSE IF m3.ok THEN [kind |-> "set_rate", date |-> now, currency |-> "CN", rate |-> RateOf(m3)]
        ELSE IF m4.ok THEN Dated(d4, m4, "CN")
        ELSE [kind |-> "rate_help"]

\* the optional quote ["\'""]? of the delete patterns
IsQuote(c) == c \in {"\"", "'"}

QuoteRun(s, i) == IF i <= Len(s) /\ IsQuote(s[i]) THEN 1 ELSE 0

\* (TW|CN) at position i, case kept
PlainCurrencyAt(s, i) ==
    IF At(s, i, <<"T", "W">>) THEN "TW"
    ELSE IF At(s, i, <<"C", "N">>) THEN "CN"
    ELSE None

\* date_amount_pattern at position i
DeleteExactDate(s, md) ==
    LET k == md.end + QuoteRun(s, md.end)
        n == MatchNumber(s, k + 2)
    IN  IF md.ok /\ PlainCurrencyAt(s, k) # None /\ n.ok
        THEN [ok |-> TRUE, g |-> md.g, currency |-> PlainCurrencyAt(s, k),
              amount |-> FloatOf(n.str)]
        ELSE NoMatch

MatchDeleteExact(s, i) ==
    LET j == i + Len(KW_Delete)
    IN  IF At(s, i, KW_Delete)
        THEN DeleteExactDate(s, MatchMD(s, j + QuoteRun(s, j), <<"/">>, <<>>))
        ELSE NoMatch

\* monthly_pattern at position i
MatchDeleteMonthly(s, i) ==
    LET j  == i + Len(KW_Delete)
        j1 == j + QuoteRun(s, j)
        r  == DigitRun(s, j1, 2)
        n  == IF r >= 2 /\ At(s, j1 + 2, KW_Month) THEN 2
              ELSE IF r >= 1 /\ At(s, j1 + 1, KW_Month) THEN 1
              ELSE 0
        k0 == j1 + n + Len(KW_Month)
        k  == k0 + QuoteRun(s, k0)
    IN  IF At(s, i, KW_Delete) /\ n > 0 /\ PlainCurrencyAt(s, k) # None /\ At(s, k + 2, KW_Report)
        THEN [ok |-> TRUE, month |-> IntOf(SubSeq(s, j1, j1 + n - 1)),
              currency |-> PlainCurrencyAt(s, k)]
        ELSE NoMatch

\* _handle_delete_commands: what the directive asks of the store
DeleteAmong(t, I, J, now) ==
    LET m  == MatchDeleteExact(t, Leftmost(I))
        mm == MatchDeleteMonthly(t, Leftmost(J))
    IN  IF I # {}
        THEN (IF DirectiveDateValid(m.g, now)
              THEN [kind |-> "delete", date |-> DirectiveDate(m.g, now),
                    currency |-> m.currency, amount |-> m.amount]
              ELSE [kind |-> "delete_format_error"])
        ELSE IF J # {}
        THEN [kind |-> "delete_monthly", month |-> mm.month, year |-> now.y,
              currency |-> mm.currency]
        ELSE [kind |-> "delete_help"]

handle_delete_commands(t0, now) ==
    LET t == Strip(t0)
    IN  DeleteAmong(t, {i \in 1..Len(t) : MatchDeleteExact(t, i).ok},
                    {i \in 1..Len(t) : MatchDeleteMonthly(t, i).ok}, now)

\* _handle_other_commands: the chain of tests on the stripped text
handle_other_commands(t0, now) ==
    LET t == Strip(t0)
    IN  IF \/ Contains(t, KW_Set) /\ Contains(t, KW_Rate)
           \/ StartsWith(t, KW_RateSet)
           \/ StartsWith(t, <<"T", "W", "D">>)
           \/ StartsWith(t, <<"C", "N", "Y">>)
        THEN handle_exchange_rate_setting(t, now)
        ELSE IF StartsWith(t, KW_Delete) THEN handle_delete_commands(t, now)
        ELSE IF StartsWith(t, KW_UserSettings) THEN [kind |-> "user_settings"]
        ELSE IF StartsWith(t, KW_Welcome) THEN [kind |-> "welcome_setting"]
        ELSE IF t = KW_List THEN [kind |-> "list"]
        ELSE IF t = KW_FleetReport THEN [kind |-> "fleet_report"]
        ELSE IF t = KW_InitReport THEN [kind |-> "initialize_report"]
        ELSE [kind |-> "ignored"]

\* handle_transaction_message: which branch a text takes, and with what data
DispatchParsed(t, fr, tx, fd, now) ==
    IF t = <<>> THEN [kind |-> "no_text"]
    ELSE IF fr.ok THEN [kind |-> "financial_record", amount |-> fr.amount]
    ELSE IF tx.ok THEN [kind |-> "transaction", data |-> tx]
    ELSE IF t = KW_Restart THEN [kind |-> "restart"]
    ELSE IF t \in {KW_Menu, KW_PayoutReport} THEN [kind |-> "keyboard"]
    ELSE IF fd.ok THEN [kind |-> "fund", data |-> fd]
    ELSE handle_other_commands(t, now)

Dispatch(t, user_id, now) ==
    DispatchParsed(t, parse_financial_record(t), parse_transaction(t, user_id, now),
                   parse_fund_command(t), now)

(***************************************************************************)
(* The bot handling text messages                                          *)
(***************************************************************************)
M_DatedIncome == <<"6", "/", "1", " ", "T", "W", "+", "5">>
M_BareTW == <<"T", "W", "5">>
M_BareCN == <<"C", "N", "5">>
M_MinusOnly == <<"-", "5">>
M_Zero == <<"T", "W", "0">>
M_BadDate == <<"1", "3", "/", "4", "5", " ", "T", "W", "5">>
M_Delete == <<"u522A", "u9664", "\"", "6", "/", "1", "\"", "T", "W", "5">>
M_DeleteMonth == <<"u522A", "u9664", "\"", "6", "u6708", "\"", "T", "W", "u5831", "u8868">>
M_SetRateDated == <<"u8A2D", "u5B9A", "6", "/", "1", "u532F", "u7387", "3", "3">>
M_SetRateToday == <<"u8A2D", "u5B9A", "u532F", "u7387", "3", "1">>
M_Record == <<"u9805", "u76EE", ":", "a", "\n", "u91D1", "u984D", ":", "5">>
M_Chat == <<"h", "i">>

\* the texts users send
Messages ==
    {M_DatedIncome, M_BareTW, M_BareCN, M_MinusOnly, M_Zero, M_BadDate,
     M_Delete, M_DeleteMonth, M_SetRateDated, M_SetRateToday, M_Record, M_Chat}

\* the users writing to the bot
UserIds == {1, 2}

\* who writes where: user 1 in the private chat with the bot (0), user 2 in
\* the group chat 100
Senders == {[user |-> 1, chat |-> 0], [user |-> 2, chat |-> 100]}

\* the days the bot may be running on
Todays == {MkDate(2025, 6, 2)}

\* the most rows the transactions table holds
MaxRows == 2

\* Dispatch, tabulated over the texts, users and days above
DispatchTable ==
    {<<x, Dispatch(x[1], x[2], x[3])>> : x \in Messages \X UserIds \X Todays}

DispatchOf(t, u, now) == (CHOOSE p \in DispatchTable : p[1] = <<t, u, now>>)[2]

\* the group_id the handler stores: chat.id in a group, else 0
GroupIdOf(chat) == chat

\* what handle_transaction_message does with the text t of user u in chat once
\* the text is routed to the branch c
HandleDispatched(u, chat, t, c) ==
    LET stores == c.kind \in {"financial_record", "transaction"}
        row_date == IF c.kind = "transaction" THEN c.data.date ELSE today
        row_currency == IF c.kind = "transaction" THEN c.data.currency ELSE "TW"
        row_amount == IF c.kind = "transaction" THEN c.data.amount ELSE c.amount
        row_type == IF c.kind = "transaction" THEN c.data.transaction_type ELSE "income"
        deleted == delete_transaction(transactions, u, c.date, c.currency, c.amount)
        deleted_month == delete_monthly_transactions(transactions, u, c.month, c.year, c.currency)
        fund_chat == IF chat = 0 THEN u ELSE chat
        current_amount == FundBalanceTW(funds, c.data.fund_type, fund_chat)
        new_amount == IF c.data.operation = "income" THEN current_amount + c.data.amount
                      ELSE current_amount - c.data.amount
    IN  /\ stores => Len(transactions) < MaxRows
        /\ transactions' =
              IF stores
              THEN add_transaction(transactions, u, GroupIdOf(chat), row_date, row_currency,
                                   row_amount, row_type, u)
              ELSE IF c.kind = "delete" THEN deleted
              ELSE IF c.kind = "delete_monthly" THEN deleted_month
              ELSE transactions
        /\ users' = IF stores THEN users \cup {u} ELSE users
        /\ groups' = IF stores /\ chat # 0 THEN groups \cup {chat} ELSE groups
        /\ exchange_rates' =
              IF c.kind = "set_rate"
              THEN set_exchange_rate(backend, exchange_rates, c.date, c.rate, c.currency)
              ELSE exchange_rates
        /\ funds' =
              IF c.kind = "fund"
              THEN update_fund(backend, funds, c.data.fund_type, new_amount, "TW", fund_chat)
              ELSE funds
        /\ last' = [op |-> "message", user |-> u, chat |-> chat, text |-> t, kind |-> c.kind,
                    reply |-> IF c.kind = "delete"
                              THEN (IF Len(deleted) < Len(transactions)
                                    THEN "delete_ok" ELSE "delete_not_found")
                              ELSE IF c.kind = "delete_monthly"
                              THEN (IF Len(deleted_month) < Len(transactions)
                                    THEN "delete_monthly_ok" ELSE "delete_monthly_not_found")
                              ELSE IF c.kind \in {"no_text", "ignored"} THEN "none"
                              ELSE c.kind]
        /\ UNCHANGED <<tasks, user_states, backend, today, text, parsed>>

\* handle_transaction_message on the text t that user u sends in chat
HandleMessage(u, chat, t) == HandleDispatched(u, chat, t, DispatchOf(t, u, today))

\* _show_fleet_report: the fleet report of the current month
ShowFleetReport ==
    /\ last' = [op |-> "fleet_report",
                report |-> format_comprehensive_fleet_report(backend, transactions,
                                                             exchange_rates, today.m, today.y)]
    /\ UNCHANGED <<tasks, user_states, backend, today, transactions, exchange_rates, funds, users, groups, text, parsed>>

\* _show_group_report in chat: a group chat only
ShowGroupReport(chat) ==
    /\ last' = IF chat = 0 THEN [op |-> "group_report", chat |-> chat, denied |-> TRUE]
               ELSE [op |-> "group_report", chat |-> chat, denied |-> FALSE,
                     rows |-> get_group_transactions(backend, transactions, chat, today),
                     report |-> format_new_group_report(
                                    backend,
                                    get_group_transactions(backend, transactions, chat, today),
                                    exchange_rates)]
    /\ UNCHANGED <<tasks, user_states, backend, today, transactions, exchange_rates, funds, users, groups, text, parsed>>

\* _show_personal_report of user u in chat (month = 0), and _show_monthly_report
\* of a month of the current year; the latter passes chat.id, which in a
\* private chat is the id of the user
ShowPersonalReport(u, chat, month) ==
    LET group_id == IF month = 0 THEN chat ELSE (IF chat = 0 THEN u ELSE chat)
        rows == get_user_transactions(backend, transactions, u, group_id, month, today.y, today)
    IN  /\ last' = [op |-> "personal_report", user |-> u, chat |-> chat, month |-> month,
                    rows |-> rows, report |-> format_personal_report(rows)]
        /\ UNCHANGED <<tasks, user_states, backend, today, transactions, exchange_rates, funds, users, groups, text, parsed>>

NoCall == <<>>

Init ==
    /\ backend \in Backends
    /\ user_states = NoStates
    /\ today \in Todays
    /\ transactions = <<>>
    /\ exchange_rates = {}
    /\ funds = <<>>
    /\ users = {}
    /\ groups = {}
    /\ last = [op |-> "start"]
    /\ text = NoCall
    /\ parsed = NoMatch
    /\ tasks = NoTasks

\* the texts a ledger user sends: entries, deletions, a dated rate and chatter
LedgerMessages == Messages \ {M_SetRateToday}

Message == \E w \in Senders, t \in LedgerMessages : HandleMessage(w.user, w.chat, t)

\* the months of the monthly report asked for; 0 is the personal report
ReportMonths == {0, 6}

FleetReport == ShowFleetReport

GroupReport == \E w \in Senders : ShowGroupReport(w.chat)

PersonalReport == \E w \in Senders, month \in ReportMonths : ShowPersonalReport(w.user, w.chat, month)

Next == Message

Spec == Init /\ [][Next]_vars

\* the texts that fill the ledger and the rate table before a report is asked
ReportMessages ==
    {M_DatedIncome, M_BareTW, M_BareCN, M_MinusOnly, M_SetRateDated, M_SetRateToday}

ReportMessage == \E w \in Senders, t \in ReportMessages : HandleMessage(w.user, w.chat, t)

NextReport ==
    \/ ReportMessage
    \/ FleetReport
    \/ GroupReport
    \/ PersonalReport

SpecReport == Init /\ [][NextReport]_vars

(***************************************************************************)
(* Direct calls of the parser on texts built from tokens                   *)
(***************************************************************************)
Tokens ==
    { <<"T", "W">>, <<"C", "N">>, <<"+">>, <<"-">>, <<" ">>, <<"5">>, <<"0">>,
      <<"6", "/", "1">>, <<"1", "3", "/", "4", "5">> }

\* the most tokens a text is built from
MaxTokens == 3

\* the texts of at most n tokens
RECURSIVE TextsOf(_)
TextsOf(n) ==
    IF n = 0 THEN {<<>>}
    ELSE TextsOf(n - 1) \cup {p \o tk : p \in TextsOf(n - 1), tk \in Tokens}

InitParse ==
    /\ backend = "sqlite"
    /\ user_states = NoStates
    /\ today \in Todays
    /\ transactions = <<>>
    /\ exchange_rates = {}
    /\ funds = <<>>
    /\ users = {}
    /\ groups = {}
    /\ last = [op |-> "start"]
    /\ text \in TextsOf(MaxTokens)
    /\ parsed = NoMatch
    /\ tasks = NoTasks

\* TransactionParser.parse_transaction(text, user_id) called once
ParseCall ==
    /\ last.op = "start"
    /\ parsed' = parse_transaction(text, 1, today)
    /\ last' = [op |-> "parse"]
    /\ UNCHANGED <<tasks, user_states, backend, today, transactions, exchange_rates, funds, users, groups, text>>

NextParse == ParseCall

SpecParse == InitParse /\ [][NextParse]_vars

\* the text is a currency token followed at once by digits and nothing else
BareShape(t, cur) ==
    /\ Len(t) > 2
    /\ SubSeq(t, 1, 2) = CURRENCY_PATTERNS(cur)[1]
    /\ \A i \in 3..Len(t) : IsDigit(t[i])

\* the text is a currency token, a sign, and a number literal that may carry
\* a minus of its own
SignedShape(t) ==
    /\ Len(t) > 3
    /\ \E cur \in {"TW", "CN"} : SubSeq(t, 1, 2) = CURRENCY_PATTERNS(cur)[1]
    /\ t[3] \in {"+", "-"}
    /\ LET k == IF t[4] = "-" THEN 5 ELSE 4
       IN  k <= Len(t) /\ \A i \in k..Len(t) : IsDigit(t[i])

\* the digits a text ends with, as a number
RECURSIVE TrailingDigits(_)
TrailingDigits(t) ==
    IF t # <<>> /\ IsDigit(t[Len(t)])
    THEN TrailingDigits(SubSeq(t, 1, Len(t) - 1)) \o <<t[Len(t)]>>
    ELSE <<>>

\* C7: a currency token followed by a bare number takes the default
\* direction of the currency: TW is income, CN is expense ("TW500" is income
\* 500, "CN500" is expense 500).
C7_BareDefaultDirection ==
    last.op = "parse" =>
        \A cur \in {"TW", "CN"} :
            BareShape(text, cur) =>
                /\ parsed.ok
                /\ parsed.currency = cur
                /\ parsed.amount = IntOf(TrailingDigits(text))
                /\ parsed.transaction_type = (IF cur = "CN" THEN "expense" ELSE "income")

\* C8: a currency token followed by an explicit sign and a number takes the
\* sign token as the direction, whatever the sign of the literal after it:
\* '+' is income, '-' is expense, and the amount is the absolute value.
C8_SignAuthoritative ==
    (last.op = "parse" /\ SignedShape(text)) =>
        /\ parsed.ok
        /\ parsed.amount = IntOf(TrailingDigits(text))
        /\ parsed.transaction_type = (IF text[3] = "+" THEN "income" ELSE "expense")

(***************************************************************************)
(* Properties of the message handler                                       *)
(***************************************************************************)
\* C6: every row of the ledger written by a text message has amount > 0.
C6_StoredAmountsPositive ==
    \A i \in 1..Len(transactions) : transactions[i].amount > 0

\* some date pattern matches somewhere in the text on a calendar date
HasValidDateToken(t, year) ==
    \E k \in 1..Len(DATE_PATTERNS), i \in 1..Len(t) :
        LET m == MatchDateAt(DATE_PATTERNS[k], t, i)
        IN  m.ok /\ LET dt == DateOfMatch(m, year) IN ValidDate(dt.y, dt.m, dt.d)

\* the text names a currency and an amount
CurrencyText(t) == FirstLoop(Strip(t)).ok

\* the step handles a currency text that has no valid date token
UndatedStep ==
    /\ last'.op = "message"
    /\ CurrencyText(last'.text)
    /\ ~HasValidDateToken(last'.text, today.y)

\* C9 as stated: a currency text with no date token, or with only a
\* date-shaped token that is no calendar date, does not parse, and handling
\* it stores no ledger entry.
C9_UndatedTextRejected ==
    [][UndatedStep => (last'.kind # "transaction" /\ transactions' = transactions)]_vars

\* C9 amended: such a text parses with the date of the current day, and
\* handling it appends one ledger entry dated the current day.
C9_UndatedTextDatedToday ==
    [][UndatedStep =>
          /\ last'.kind = "transaction"
          /\ Len(transactions') = Len(transactions) + 1
          /\ SubSeq(transactions', 1, Len(transactions)) = transactions
          /\ transactions'[Len(transactions')].date = today]_vars

\* an undated currency text, and one with an invalid date-shaped token, have
\* been handled and their entries carry the current day
C9_Witness ==
    /\ last.op = "message"
    /\ last.text = M_BadDate
    /\ last.kind = "transaction"
    /\ Len(transactions) = 2
    /\ transactions[1].date = today
    /\ transactions[2].date = today
    /\ today # MkDate(today.y, 6, 1)

\* the step handles a text of the shape 刪除"MM/DD"<TW|CN><amount>
DeleteStep ==
    /\ last'.op = "message"
    /\ handle_delete_commands(last'.text, today).kind = "delete"

\* C10: handling 刪除"MM/DD"<TW|CN><amount> removes the sender's entries of
\* that date (current year), currency and amount and adds none; when none
\* matches the store is unchanged and the reply is the not-found message.
C10_DeleteRemovesMatching ==
    [][DeleteStep =>
          LET d == handle_delete_commands(last'.text, today)
              after == delete_transaction(transactions, last'.user, d.date, d.currency, d.amount)
          IN  /\ transactions' = after
              /\ (after = transactions => last'.reply = "delete_not_found")]_vars

(***************************************************************************)
(* The exchange-rate store under calls of its operations                   *)
(***************************************************************************)
\* the effective dates rates are set for and asked for
RateDates == {MkDate(2024, 12, 31), MkDate(2025, 6, 1), MkDate(2025, 6, 2)}

\* the rates set: 7.5, 31.0 and 31.12345
RateValues == {750000, 3100000, 3112345}

InitRate ==
    /\ backend \in Backends
    /\ user_states = NoStates
    /\ today \in Todays
    /\ transactions = <<>>
    /\ exchange_rates = {}
    /\ funds = <<>>
    /\ users = {}
    /\ groups = {}
    /\ last = [op |-> "start"]
    /\ text = NoCall
    /\ parsed = NoMatch
    /\ tasks = NoTasks

\* db.set_exchange_rate(d, rate, set_by, currency)
SetRate(d, currency, rate) ==
    /\ exchange_rates' = set_exchange_rate(backend, exchange_rates, d, rate, currency)
    /\ last' = [op |-> "set_exchange_rate", date |-> d, currency |-> currency, rate |-> rate]
    /\ UNCHANGED <<tasks, user_states, backend, today, transactions, funds, users, groups, text, parsed>>

\* db.get_exchange_rate(d, currency), and what the report makes of the answer
GetRate(d, currency) ==
    /\ last' = [op |-> "get_exchange_rate", date |-> d, currency |-> currency,
                result |-> get_exchange_rate(exchange_rates, d, currency),
                resolved |-> ResolveRate(exchange_rates, d, currency)]
    /\ UNCHANGED <<tasks, user_states, backend, today, transactions, exchange_rates, funds, users, groups, text, parsed>>

\* db.get_latest_exchange_rates(d): a method of the railway store only
GetLatestRates(d, failed) ==
    /\ backend = "railway"
    /\ last' = [op |-> "get_latest_exchange_rates", date |-> d, failed |-> failed,
                result |-> get_latest_exchange_rates(exchange_rates, d, failed)]
    /\ UNCHANGED <<tasks, user_states, backend, today, transactions, exchange_rates, funds, users, groups, text, parsed>>

NextRate ==
    \/ \E d \in RateDates, c \in {"TW", "CN"}, r \in RateValues : SetRate(d, c, r)
    \/ \E d \in RateDates, c \in {"TW", "CN"} : GetRate(d, c)
    \/ \E d \in RateDates, failed \in BOOLEAN : GetLatestRates(d, failed)

SpecRate == InitRate /\ [][NextRate]_vars

\* the rows of a currency dated on or before a day
RowsAtOrBefore(d, currency) ==
    {r \in exchange_rates :
        /\ r.currency = currency
        /\ \/ r.date.y < d.y
           \/ r.date.y = d.y /\ r.date.m < d.m
           \/ r.date.y = d.y /\ r.date.m = d.m /\ r.date.d <= d.d}

\* the rows among those with the greatest date
LatestOf(R) == {r \in R : \A q \in R : DateLE(q.date, r.date)}

\* C4: get_exchange_rate(d, c) answers the rate of the row of currency c
\* with the greatest date on or before d, never a row dated after d and never
\* a row of the other currency; with no such row it answers None and the
\* report's resolver takes the fallback rate.
C4_LatestRateAtOrBefore ==
    last.op = "get_exchange_rate" =>
        LET R == RowsAtOrBefore(last.date, last.currency)
        IN  IF R = {}
            THEN ~last.result.found /\ last.resolved = Fallback(last.currency)
            ELSE /\ last.result.found
                 /\ \E r \in LatestOf(R) : r.rate = last.result.rate
                 /\ last.resolved = last.result.rate

\* a lookup between two rows of the currency, with a row of the other
\* currency in between, answered the earlier row's rate
C4_Witness ==
    /\ last.op = "get_exchange_rate"
    /\ last.currency = "TW"
    /\ last.date = MkDate(2025, 6, 1)
    /\ [date |-> MkDate(2024, 12, 31), currency |-> "TW", rate |-> 3100000] \in exchange_rates
    /\ [date |-> MkDate(2025, 6, 2), currency |-> "TW", rate |-> 750000] \in exchange_rates
    /\ [date |-> MkDate(2025, 6, 1), currency |-> "CN", rate |-> 750000] \in exchange_rates
    /\ last.result = [found |-> TRUE, rate |-> 3100000]

\* a lookup with no row of the currency on or before the day took the fallback
C4_WitnessNone ==
    /\ last.op = "get_exchange_rate"
    /\ last.currency = "CN"
    /\ last.date = MkDate(2024, 12, 31)
    /\ \E r \in exchange_rates : r.currency = "CN"
    /\ \E r \in exchange_rates : r.currency = "TW" /\ r.date = last.date
    /\ last.result = [found |-> FALSE]
    /\ last.resolved = FallbackCN

\* C5: get_latest_exchange_rates(d) answers both currencies, also when the
\* query fails, and unless it fails each value is what get_exchange_rate(d,
\* currency) answers: the latest rate on or before d, the fallback only when
\* the currency has no row on or before d.
C5_LatestRatesPerCurrency ==
    last.op = "get_latest_exchange_rates" =>
        /\ DOMAIN last.result = {"TWD", "CNY"}
        /\ ~last.failed =>
              LET Want(cur) ==
                      LET R == RowsAtOrBefore(last.date, cur)
                      IN  IF R = {} THEN Fallback(cur)
                          ELSE (CHOOSE r \in LatestOf(R) : TRUE).rate
              IN  last.result.TWD = Want("TW") /\ last.result.CNY = Want("CN")

(***************************************************************************)
(* Properties of the reports                                               *)
(***************************************************************************)
\* subtotal / rate of the first n day blocks of a report, added up
RECURSIVE ConvertedSum(_, _, _)
ConvertedSum(days, currency, n) ==
    IF n = 0 THEN Zero
    ELSE FracAdd(ConvertedSum(days, currency, n - 1),
                 IF days[n].sub[currency] > 0
                 THEN Frac(days[n].sub[currency] * 100000, days[n].rate[currency])
                 ELSE Zero)

\* the day blocks of a report with income in a currency
PositiveDays(days, currency) == {i \in 1..Len(days) : days[i].sub[currency] > 0}

\* C1: in the fleet report the headline settlement total of each currency is
\* the sum over the day blocks of the day's income subtotal divided by the
\* day's own rate; when the income lies on two days with different rates it
\* differs from the grand local total divided by either of the two rates.
C1_FleetHeadlineSumsDays ==
    (last.op = "fleet_report" /\ ~last.report.empty) =>
        \A cur \in {"TW", "CN"} :
            LET days == last.report.days
                pos  == PositiveDays(days, cur)
            IN  /\ last.report.usdt[cur] = ConvertedSum(days, cur, Len(days))
                /\ \A i \in pos, j \in pos :
                      (Cardinality(pos) = 2 /\ days[i].rate[cur] # days[j].rate[cur]) =>
                          last.report.usdt[cur]
                              # Frac(last.report.totals[cur] * 100000, days[i].rate[cur])

\* a fleet report over two days of TW income converted at different rates
C1_Witness ==
    /\ last.op = "fleet_report"
    /\ ~last.report.empty
    /\ Len(last.report.days) = 2
    /\ last.report.days[1].sub.TW > 0
    /\ last.report.days[2].sub.TW > 0
    /\ last.report.days[1].rate.TW # last.report.days[2].rate.TW
    /\ last.report.usdt.TW # Zero

\* the date of the rows of a day key
DateOfKey(rows, key) ==
    CHOOSE d \in {rows[i].date : i \in 1..Len(rows)} : DayKey(d) = key

\* the income of each day converted at the rate the store resolves for the
\* date of that day, added up
RECURSIVE PerDayUSDT(_, _, _, _)
PerDayUSDT(rows, rates, keys, currency) ==
    IF keys = <<>> THEN Zero
    ELSE FracAdd(ToUSDT(IncomeSum(rows, currency, Head(keys)),
                        ResolveRate(rates, DateOfKey(rows, Head(keys)), currency)),
                 PerDayUSDT(rows, rates, Tail(keys), currency))

ExpectedHeadline(rows, rates, currency) ==
    PerDayUSDT(rows, rates, SortedKeys(DayKeys(rows, TRUE)), currency)

\* C2: in the group report the headline settlement total of each currency is
\* the sum of the settlement amounts of the day subtotal lines, each the
\* day's income subtotal divided by the rate the store resolves for that day.
C2_GroupHeadlineSumsDays ==
    (last.op = "group_report" /\ ~last.denied /\ ~last.report.empty) =>
        \A cur \in {"TW", "CN"} :
            /\ last.report.usdt[cur] = SumUSDT(last.report.days, cur)
            /\ last.report.usdt[cur] = ExpectedHeadline(last.rows, exchange_rates, cur)

\* C3: the headline settlement total of the personal report is the sum over
\* the days of the day's income subtotal divided by the rate resolved from
\* the store for that day, not the month's total divided by one fixed rate.
C3_PersonalHeadlinePerDay ==
    (last.op = "personal_report" /\ ~last.report.empty) =>
        \A cur \in {"TW", "CN"} :
            last.report.usdt[cur] = ExpectedHeadline(last.rows, exchange_rates, cur)

(***************************************************************************)
(* Fund adjustments and chatter sent as text messages                      *)
(***************************************************************************)
\* the fund tokens: those of the help text (handlers.py: 公桶, 私人) and those
\* utils.py holds in fund_patterns
FundTokens ==
    {<<"u516C", "u6876">>, <<"u79C1", "u4EBA">>,
     fund_patterns("public")[1], fund_patterns("private")[1]}

\* which fund a token names
FundKindOf(tok) ==
    IF tok \in {<<"u516C", "u6876">>, fund_patterns("public")[1]} THEN "public" ELSE "private"

M_ChatHyphen == <<"r", "o", "o", "m", "-", "5">>

\* "<FundKind>-5" and "<FundKind>+5" for every token, and two lines of chatter
FundMessages ==
    {tok \o sign \o <<"5">> : tok \in FundTokens, sign \in {<<"+">>, <<"-">>}}
    \cup {M_ChatHyphen, M_Chat}

\* Dispatch, tabulated over those texts
FundDispatchTable ==
    {<<x, Dispatch(x[1], x[2], x[3])>> : x \in FundMessages \X UserIds \X Todays}

FundDispatchOf(t, u, now) == (CHOOSE p \in FundDispatchTable : p[1] = <<t, u, now>>)[2]

\* the most rows the funds table holds, and the largest balance followed
MaxFundRows == 3
MaxBalance == 15

FundsInBounds(tbl) ==
    /\ Len(tbl) <= MaxFundRows
    /\ \A i \in 1..Len(tbl) : Abs(tbl[i].amount) <= MaxBalance

FundMessage ==
    \E w \in Senders, t \in FundMessages :
        /\ HandleDispatched(w.user, w.chat, t, FundDispatchOf(t, w.user, today))
        /\ FundsInBounds(funds')

NextFund == FundMessage

SpecFund == Init /\ [][NextFund]_vars

\* the last message handled was tok \o sign \o "5"
FundStep(tok, sign) ==
    /\ last'.op = "message"
    /\ last'.text = tok \o sign \o <<"5">>

FundDelta(tok, user, chat, delta) ==
    LET c == IF chat = 0 THEN user ELSE chat
    IN  /\ transactions' = transactions
        /\ FundBalanceTW(funds', FundKindOf(tok), c)
               = FundBalanceTW(funds, FundKindOf(tok), c) + delta

\* C11: a text "<FundKind>-<amount>" lowers the balance of that fund of the
\* chat by the amount and "<FundKind>+<amount>" raises it by the amount; in
\* both cases the ledger gets no entry.
C11_FundAdjustment ==
    [][\A tok \in FundTokens :
          /\ FundStep(tok, <<"-">>) => FundDelta(tok, last'.user, last'.chat, 0 - 5)
          /\ FundStep(tok, <<"+">>) => FundDelta(tok, last'.user, last'.chat, 5)]_vars

(***************************************************************************)
(* Handler coroutines in flight: two fund adjustments of the same fund of  *)
(* the same chat (_handle_fund_command) and a /restart (restart_command).  *)
(* A coroutine may be suspended at each await; the statements between two  *)
(* awaits run without interruption.                                        *)
(***************************************************************************)
\* the two fund adjustments, both of the fund "public" of chat 100; the
\* /restart is task 3
FundTasks == {1, 2}

\* the signed amounts of the adjustments
Deltas == {5, 0 - 5, 3}

InitTasks ==
    /\ backend \in Backends
    /\ user_states = NoStates
    /\ today \in Todays
    /\ transactions = <<>>
    /\ exchange_rates = {}
    /\ funds = <<>>
    /\ users = {}
    /\ groups = {}
    /\ last = [op |-> "start"]
    /\ text = NoCall
    /\ parsed = NoMatch
    /\ \E d1 \in Deltas, d2 \in Deltas :
          tasks = [lock |-> 0,
                   pc |-> <<[at |-> "start", delta |-> d1, current_amount |-> 0],
                            [at |-> "start", delta |-> d2, current_amount |-> 0],
                            [at |-> "start", delta |-> 0, current_amount |-> 0]>>]

\* the position of task t becomes at, its balance read becomes amount, and
\* the lock goes to holder
TaskStep(t, at, amount, holder) ==
    tasks' = [lock |-> holder,
              pc |-> [tasks.pc EXCEPT ![t] = [at |-> at, delta |-> @.delta,
                                              current_amount |-> amount]]]

\* async with self._lock (get_connection / the railway methods): the
\* coroutine goes on when the lock is free, and holds it
AcquireLock(t) ==
    /\ t \in FundTasks
    /\ tasks.pc[t].at \in {"start", "computed"}
    /\ tasks.lock = 0
    /\ TaskStep(t, IF tasks.pc[t].at = "start" THEN "get_fund_balance" ELSE "update_fund",
                tasks.pc[t].current_amount, t)
    /\ UNCHANGED <<user_states, backend, today, transactions, exchange_rates, funds, users, groups, last,
                   text, parsed>>

\* db.get_fund_balance(fund_type, chat.id) inside the lock, which it releases
GetFundBalance(t) ==
    /\ t \in FundTasks
    /\ tasks.pc[t].at = "get_fund_balance"
    /\ TaskStep(t, "computed", FundBalanceTW(funds, "public", 100), 0)
    /\ UNCHANGED <<user_states, backend, today, transactions, exchange_rates, funds, users, groups, last,
                   text, parsed>>

\* db.update_fund(fund_type, new_amount, 'TW', chat.id) inside the lock,
\* new_amount computed from the balance read before
UpdateFund(t) ==
    /\ t \in FundTasks
    /\ tasks.pc[t].at = "update_fund"
    /\ funds' = update_fund(backend, funds, "public",
                            tasks.pc[t].current_amount + tasks.pc[t].delta, "TW", 100)
    /\ TaskStep(t, "done", tasks.pc[t].current_amount, 0)
    /\ UNCHANGED <<user_states, backend, today, transactions, exchange_rates, users, groups, last,
                   text, parsed>>

\* restart_command: self.db.init_database() runs its CREATE TABLE IF NOT
\* EXISTS statements on a connection of its own, without the lock
InitDatabase ==
    /\ tasks.pc[3].at \in {"start", "init_database"}
    /\ TaskStep(3,
                IF tasks.pc[3].at = "start" THEN "init_database" ELSE "done",
                0, tasks.lock)
    /\ UNCHANGED <<user_states, backend, today, transactions, exchange_rates, funds, users, groups, last,
                   text, parsed>>

NextTasks ==
    \/ \E t \in FundTasks : AcquireLock(t)
    \/ \E t \in FundTasks : GetFundBalance(t)
    \/ \E t \in FundTasks : UpdateFund(t)
    \/ InitDatabase

SpecTasks == InitTasks /\ [][NextTasks]_vars

StorePositions == {"get_fund_balance", "update_fund", "init_database"}

\* C13: at most one coroutine is inside a guarded section of the store at a
\* time, and a coroutine executing statements of the store holds the lock.
C13_StoreAccessUnderLock ==
    /\ Cardinality({t \in FundTasks : tasks.pc[t].at \in StorePositions}) <= 1
    /\ \A t \in DOMAIN tasks.pc : tasks.pc[t].at \in StorePositions => tasks.lock = t

\* the rows of the funds table with the key of row i
SameFundKey(i) ==
    {j \in 1..Len(funds) : /\ funds[j].fund_type = funds[i].fund_type
                           /\ funds[j].currency = funds[i].currency
                           /\ funds[j].group_id = funds[i].group_id}

\* C14: after any sequence of update_fund calls, with either store, the
\* table holds at most one row per (fund_type, currency, group_id), and
\* get_fund_balance answers the amount of the most recent update.
C14_OneFundRowPerKey ==
    /\ [](\A i \in 1..Len(funds) : SameFundKey(i) = {i})
    /\ [][\A t \in FundTasks :
             (tasks.pc[t].at = "update_fund" /\ tasks'.pc[t].at = "done")
                 => FundBalanceTW(funds', "public", 100)
                        = tasks.pc[t].current_amount + tasks.pc[t].delta]_vars

(***************************************************************************)
(* The rate table under set_exchange_rate                                  *)
(***************************************************************************)
\* the rows of the rate table for a date and a currency
RateRows(tbl, d, currency) == {r \in tbl : r.date = d /\ r.currency = currency}

\* the step is a set_exchange_rate call
SetRateStep == last'.op = "set_exchange_rate"

\* the rows of the other currencies are what they were
OtherRatesKept == {r \in exchange_rates' : r.currency # last'.currency}
                      = {r \in exchange_rates : r.currency # last'.currency}

OneRateRowPerKey ==
    \A r \in exchange_rates : RateRows(exchange_rates, r.date, r.currency) = {r}

\* C15 as stated: one row per (date, currency); get_exchange_rate directly
\* after a set answers exactly the rate set; the other currency is untouched.
C15_RateSetThenGetExact ==
    /\ []OneRateRowPerKey
    /\ [][SetRateStep =>
             /\ get_exchange_rate(exchange_rates', last'.date, last'.currency)
                    = [found |-> TRUE, rate |-> last'.rate]
             /\ OtherRatesKept]_vars

\* the rate is within half a unit of the fourth decimal of the rate set, and
\* has no digit after the fourth decimal
RoundedToFourDecimals(stored, rate) ==
    /\ stored % 10 = 0
    /\ stored - rate <= 5
    /\ rate - stored < 5

\* C15, amended: one row per (date, currency); get_exchange_rate directly
\* after a set answers the rate set, exactly with the sqlite store and rounded
\* to four decimals with the railway store; the other currency is untouched.
C15_RateSetThenGetStored ==
    /\ []OneRateRowPerKey
    /\ [][SetRateStep =>
             LET got == get_exchange_rate(exchange_rates', last'.date, last'.currency)
             IN  /\ got.found
                 /\ IF backend = "railway" THEN RoundedToFourDecimals(got.rate, last'.rate)
                    ELSE got.rate = last'.rate
                 /\ OtherRatesKept]_vars

\* a rate of five decimals was set with the railway store for a date that
\* holds a rate of the other currency, and is held rounded
C15_Witness ==
    /\ backend = "railway"
    /\ last.op = "set_exchange_rate"
    /\ last.rate = 3112345
    /\ RateRows(exchange_rates, last.date, last.currency)
           = {[date |-> last.date, currency |-> last.currency, rate |-> 3112350]}
    /\ \E r \in exchange_rates : r.date = last.date /\ r.currency # last.currency

(***************************************************************************)
(* Rate directives sent as text messages                                   *)
(***************************************************************************)
\* ValidationUtils.validate_exchange_rate: 0.1 <= rate <= 100
validate_exchange_rate(rate) == 10000 <= rate /\ rate <= 10000000

M_SetCNRate == KW_Set \o KW_CNRate \o <<"7", ".", "5">>
M_SetCNRateDated == KW_Set \o <<"6", "/", "1">> \o KW_CNRate \o <<"7", ".", "5">>
M_SetRateZero == KW_Set \o KW_Rate \o <<"0">>
M_SetRateHigh == KW_Set \o KW_Rate \o <<"2", "0", "0">>
M_SetRateBare == KW_Set \o KW_Rate
M_SetRateBadDate == KW_Set \o <<"1", "3", "/", "4", "5">> \o KW_Rate \o <<"3", "3">>
M_SetRateMinus == KW_Set \o KW_Rate \o <<"-", "5">>

\* the four shapes of the help text with a rate in range, the same with a
\* rate out of range, and other texts holding both keywords
DirectiveMessages ==
    {M_SetRateToday, M_SetRateDated, M_SetCNRate, M_SetCNRateDated,
     M_SetRateZero, M_SetRateHigh, M_SetRateBare, M_SetRateBadDate, M_SetRateMinus}

\* Dispatch, tabulated over those texts
DirectiveDispatchTable ==
    {<<x, Dispatch(x[1], x[2], x[3])>> : x \in DirectiveMessages \X UserIds \X Todays}

DirectiveDispatchOf(t, u, now) ==
    (CHOOSE p \in DirectiveDispatchTable : p[1] = <<t, u, now>>)[2]

DirectiveMessage ==
    \E w \in Senders, t \in DirectiveMessages :
        HandleDispatched(w.user, w.chat, t, DirectiveDispatchOf(t, w.user, today))

NextDirective == DirectiveMessage

SpecDirective == Init /\ [][NextDirective]_vars

\* the step handles the text t
TextStep(t) == last'.op = "message" /\ last'.text = t

\* C16: a rate directive whose value validate_exchange_rate does not accept
\* (0, 200) is answered with a rejection and no rate row is written or
\* replaced.
C16_OutOfRangeRateRejected ==
    [][\A t \in {M_SetRateZero, M_SetRateHigh} :
          TextStep(t) =>
              /\ ~validate_exchange_rate(RateOf(MatchRate(t, 1 + Len(KW_Set \o KW_Rate))))
              /\ exchange_rates' = exchange_rates
              /\ last'.reply # "set_rate"]_vars

\* the step writes the one rate row (d, currency, rate) and no ledger entry
WritesRate(d, currency, rate) ==
    /\ exchange_rates' =
           {r \in exchange_rates : ~(r.date = d /\ r.currency = currency)}
           \cup {[date |-> d, currency |-> currency, rate |-> rate]}
    /\ transactions' = transactions

\* C17: the four directive shapes write one rate row each, for today or for
\* the MM/DD of the current year, for TW or for CN, and no ledger entry; any
\* other text holding both keywords gets the help message and changes
\* nothing.
C17_RateDirectiveShapes ==
    [][/\ TextStep(M_SetRateToday) => WritesRate(today, "TW", 3100000)
       /\ TextStep(M_SetRateDated) => WritesRate(MkDate(today.y, 6, 1), "TW", 3300000)
       /\ TextStep(M_SetCNRate) => WritesRate(today, "CN", 750000)
       /\ TextStep(M_SetCNRateDated) => WritesRate(MkDate(today.y, 6, 1), "CN", 750000)
       /\ \A t \in {M_SetRateBare, M_SetRateBadDate, M_SetRateMinus} :
             TextStep(t) => /\ last'.reply = "rate_help"
                            /\ exchange_rates' = exchange_rates
                            /\ transactions' = transactions]_vars

\* C18: a text without currency token, fund token or directive keyword
\* ("hi", "room-5") is no match: handling it leaves the ledger, the rates
\* and the funds as they were.
C18_ChatterChangesNothing ==
    [][\A t \in {M_Chat, M_ChatHyphen} :
          TextStep(t) => /\ transactions' = transactions
                         /\ exchange_rates' = exchange_rates
                         /\ funds' = funds]_vars

(***************************************************************************)
(* Reports of a ledger without income                                      *)
(***************************************************************************)
\* the rows the last report was made from
ReportInput ==
    IF last.op = "fleet_report"
    THEN get_all_groups_transactions(transactions, today.m, today.y)
    ELSE last.rows

\* the title line of the full report of each shape
FullTitle(op) ==
    IF op = "fleet_report" THEN "fleet report 2025/6"
    ELSE IF op = "group_report" THEN "{group_name} group report 2025/6"
    ELSE "{user_name} personal report ({group_name})"

\* C19: a report made from rows without any income entry (no rows, or
\* expenses only) is the short no-data message under the title line of the
\* full report, for the fleet, the group and the personal report.
C19_NoIncomeNoData ==
    (/\ last.op \in {"fleet_report", "group_report", "personal_report"}
     /\ last.op = "group_report" => ~last.denied
     /\ \A i \in 1..Len(ReportInput) : ReportInput[i].transaction_type # "income")
        => /\ last.report.empty
           /\ last.report.title = FullTitle(last.op)

(***************************************************************************)
(* Reports of a ledger with a row the message handler would not write      *)
(***************************************************************************)
\* the income rows found in the store: of users 1 and 2 in group 100, dated
\* 2025-06-01 or 2025-06-02, in TW or in a currency code that is neither TW
\* nor CN
StoredRows ==
    {[user_id |-> u, group_id |-> 100, date |-> MkDate(2025, 6, d), currency |-> c,
      amount |-> 5, transaction_type |-> "income", created_by |-> u] :
        u \in UserIds, d \in {1, 2}, c \in {"TW", "USD"}}

\* the most rows of such a ledger
MaxStoredRows == 3

\* the tables of at most n such rows
RECURSIVE TablesOf(_)
TablesOf(n) ==
    IF n = 0 THEN {<<>>}
    ELSE TablesOf(n - 1) \cup {Append(tbl, r) : tbl \in TablesOf(n - 1), r \in StoredRows}

Malformed(r) == r.currency \notin {"TW", "CN"}

InitFormat ==
    /\ backend \in Backends
    /\ user_states = NoStates
    /\ today \in Todays
    /\ transactions \in {tbl \in TablesOf(MaxStoredRows) :
                            Cardinality({i \in 1..Len(tbl) : Malformed(tbl[i])}) <= 1}
    /\ exchange_rates = {}
    /\ funds = <<>>
    /\ users = UserIds
    /\ groups = {100}
    /\ last = [op |-> "start"]
    /\ text = NoCall
    /\ parsed = NoMatch
    /\ tasks = NoTasks

NextFormat ==
    \/ FleetReport
    \/ GroupReport

SpecFormat == InitFormat /\ [][NextFormat]_vars

\* the row appears in the day block of its date: in the subtotal of its
\* currency and in the detail line of its owner
AppearsIn(days, rows, r, owner) ==
    \E n \in 1..Len(days) :
        /\ days[n].key = DayKey(r.date)
        /\ days[n].sub[r.currency] = IncomeSum(rows, r.currency, DayKey(r.date))
        /\ \E line \in days[n].details : line.owner = r[owner] /\ line[r.currency] >= r.amount

\* C20: in the fleet report and in the group report a malformed income row
\* is skipped on its own: every well-formed income row, also one dated the
\* same day, appears in the subtotal and in the detail lines of its day.
C20_MalformedRowSkippedAlone ==
    (/\ last.op \in {"fleet_report", "group_report"}
     /\ last.op = "group_report" => ~last.denied)
        => IF last.report.empty THEN ReportInput = <<>>
           ELSE \A i \in 1..Len(ReportInput) :
                    ~Malformed(ReportInput[i])
                        => AppearsIn(last.report.days, ReportInput, ReportInput[i],
                                     IF last.op = "fleet_report" THEN "group_id" ELSE "user_id")

(***************************************************************************)
(* Store calls that fail: two handler coroutines, each calling             *)
(* db.add_transaction with the same arguments up to MaxCalls times.  The   *)
(* call waits for the lock (async with self._lock); the guarded section    *)
(* (connect, execute, commit, close) holds no await and runs as one step,  *)
(* in which connect, execute or commit may raise.                          *)
(***************************************************************************)
StoreCallers == {1, 2}

\* the most calls one coroutine makes
MaxCalls == 2

\* how the guarded section ends
Outcomes == {"ok", "connect_raises", "execute_raises", "commit_raises"}

InitFail ==
    /\ backend \in Backends
    /\ user_states = NoStates
    /\ today \in Todays
    /\ transactions = <<>>
    /\ exchange_rates = {}
    /\ funds = <<>>
    /\ users = {}
    /\ groups = {}
    /\ last = [op |-> "start"]
    /\ text = NoCall
    /\ parsed = NoMatch
    /\ tasks = [lock |-> 0,
                pc |-> <<[at |-> "idle", calls |-> 0, result |-> None],
                         [at |-> "idle", calls |-> 0, result |-> None]>>]

\* task t moves to at, having made calls calls, the last of which answered
\* result; the lock goes to holder
CallStep(t, at, calls, result, holder) ==
    tasks' = [lock |-> holder,
              pc |-> [tasks.pc EXCEPT ![t] = [at |-> at, calls |-> calls, result |-> result]]]

\* handle_transaction_message reaches await self.db.add_transaction(...)
CallAddTransaction(t) ==
    /\ tasks.pc[t].at = "idle"
    /\ tasks.pc[t].calls < MaxCalls
    /\ CallStep(t, "async_with", tasks.pc[t].calls + 1, None, tasks.lock)
    /\ UNCHANGED <<user_states, backend, today, transactions, exchange_rates, funds, users, groups, last,
                   text, parsed>>

\* async with self._lock: the coroutine goes on when the lock is free
EnterLock(t) ==
    /\ tasks.pc[t].at = "async_with"
    /\ tasks.lock = 0
    /\ CallStep(t, "locked", tasks.pc[t].calls, None, t)
    /\ UNCHANGED <<user_states, backend, today, transactions, exchange_rates, funds, users, groups, last,
                   text, parsed>>

\* a lock released on the path of return True only
LockAfter_on_success(t, outcome) == IF outcome = "ok" THEN 0 ELSE t

\* the holder of the lock once task t leaves the async with block, by return
\* or by an exception: __aexit__ releases it either way
LockAfter(t, outcome) == 0

\* the transactions table once the connection is closed: the INSERT is kept
\* when commit() returned, and rolled back by close() otherwise
CommittedAfter(tbl, t, outcome) ==
    IF outcome = "ok" THEN add_transaction(tbl, t, 100, today, "TW", 5, "income", t)
    ELSE tbl

\* add_transaction inside the lock: return True after the commit; an exception
\* leaves through finally: conn.close(), the lock, and except: return False.
\* The handler then replies with the success or the failure message.
AddTransactionBody(t, outcome) ==
    /\ tasks.pc[t].at = "locked"
    /\ transactions' = CommittedAfter(transactions, t, outcome)
    /\ CallStep(t, "idle", tasks.pc[t].calls, IF outcome = "ok" THEN "True" ELSE "False",
                LockAfter(t, outcome))
    /\ last' = [op |-> "add_transaction", task |-> t, outcome |-> outcome,
                reply |-> IF outcome = "ok" THEN "transaction" ELSE "transaction_failed"]
    /\ UNCHANGED <<user_states, backend, today, exchange_rates, funds, users, groups, text, parsed>>

NextFail ==
    \/ \E t \in StoreCallers : CallAddTransaction(t)
    \/ \E t \in StoreCallers : EnterLock(t)
    \/ \E t \in StoreCallers, outcome \in Outcomes : AddTransactionBody(t, outcome)

\* a coroutine waiting for a free lock gets it, and a coroutine inside the
\* guarded section runs on: the event loop resumes every ready coroutine
SpecFail ==
    /\ InitFail
    /\ [][NextFail]_vars
    /\ WF_vars(\E t \in StoreCallers : EnterLock(t))
    /\ WF_vars(\E t \in StoreCallers, outcome \in Outcomes : AddTransactionBody(t, outcome))

\* a call of add_transaction returns in this step, having failed
FailedReturn(t) ==
    /\ tasks.pc[t].at = "locked"
    /\ tasks'.pc[t].at = "idle"
    /\ last'.outcome # "ok"

StoreDates == {MkDate(2025, 6, 1), MkDate(2025, 6, 2)}

StoreAmounts == {5, 7}

StoreCurrencies == {"TW", "CN"}

\* the most rows the table holds in this specification
MaxLedgerRows == 3

InitStore ==
    /\ backend \in Backends
    /\ user_states = NoStates
    /\ today \in Todays
    /\ transactions = <<>>
    /\ exchange_rates = {}
    /\ funds = <<>>
    /\ users = {}
    /\ groups = {}
    /\ last = [op |-> "start"]
    /\ text = NoCall
    /\ parsed = NoMatch
    /\ tasks = NoTasks

\* db.add_transaction(user_id, 0, date, currency, amount, 'income', user_id)
AddTransaction ==
    \E u \in UserIds, d \in StoreDates, cur \in StoreCurrencies, a \in StoreAmounts :
        /\ Len(transactions) < MaxLedgerRows
        /\ transactions' = add_transaction(transactions, u, 0, d, cur, a, "income", u)
        /\ last' = [op |-> "add_transaction"]
        /\ UNCHANGED <<tasks, user_states, backend, today, exchange_rates, funds, users, groups, text, parsed>>

\* db.delete_transaction(user_id, date, currency, amount): the DELETE, and
\* the answer cursor.rowcount > 0
DeleteTransaction ==
    \E u \in UserIds, d \in StoreDates, cur \in StoreCurrencies, a \in StoreAmounts :
        /\ transactions' = delete_transaction(transactions, u, d, cur, a)
        /\ last' = [op |-> "delete_transaction", user_id |-> u, date |-> d, currency |-> cur,
                    amount |-> a,
                    result |-> Len(delete_transaction(transactions, u, d, cur, a))
                                   < Len(transactions)]
        /\ UNCHANGED <<tasks, user_states, backend, today, exchange_rates, funds, users, groups, text, parsed>>

NextStore == AddTransaction \/ DeleteTransaction

SpecStore == InitStore /\ [][NextStore]_vars

\* the rows of a table equal to the row r, by position
Occurrences(tbl, r) == {i \in 1..Len(tbl) : tbl[i] = r}

\* the row has the four values the call of last' was made with
CalledWith(r) ==
    /\ r.user_id = last'.user_id
    /\ r.date = last'.date
    /\ r.currency = last'.currency
    /\ r.amount = last'.amount

\* C22: delete_transaction(owner, date, currency, amount) removes every row
\* whose owner, date, currency and amount all equal the arguments, keeps every
\* other row as often as it was there, and answers true exactly when a row
\* was removed; with no such row it answers false and the table is unchanged.
C22_DeleteExactlyMatching ==
    [][last'.op = "delete_transaction" =>
          /\ \A i \in 1..Len(transactions') : ~CalledWith(transactions'[i])
          /\ \A i \in 1..Len(transactions) :
                ~CalledWith(transactions[i]) =>
                    Cardinality(Occurrences(transactions', transactions[i]))
                        = Cardinality(Occurrences(transactions, transactions[i]))
          /\ Len(transactions') <= Len(transactions)
          /\ last'.result = (\E i \in 1..Len(transactions) : CalledWith(transactions[i]))
          /\ (~last'.result) => transactions' = transactions]_vars

\* C22 witness: a delete has answered true, having removed two equal rows
\* and kept a row that differs from them in the amount only.
C22_Witness ==
    /\ last.op = "delete_transaction"
    /\ last.result
    /\ Len(transactions) = 1
    /\ transactions[1].user_id = last.user_id
    /\ transactions[1].date = last.date
    /\ transactions[1].currency = last.currency
    /\ transactions[1].amount # last.amount

(***************************************************************************)
(* utils.fix_html_tags: the output sanitizer of the reports                *)
(***************************************************************************)
\* re.sub(pattern, replacement, s) for a pattern without metacharacters:
\* the occurrences from the left, not overlapping
RECURSIVE SubLiteral(_, _, _)
SubLiteral(s, pattern, replacement) ==
    IF s = <<>> THEN <<>>
    ELSE IF At(s, 1, pattern)
    THEN replacement \o SubLiteral(From(s, Len(pattern) + 1), pattern, replacement)
    ELSE <<s[1]>> \o SubLiteral(Tail(s), pattern, replacement)

\* tag_fixes: (pattern, replacement), in the order of the list
tag_fixes ==
    << <<(<<"<", "C", "O", "D", "E", ">">>), (<<"<", "c", "o", "d", "e", ">">>)>>,
       <<(<<"<", "/", "C", "O", "D", "E", ">">>), (<<"<", "/", "c", "o", "d", "e", ">">>)>>,
       <<(<<"<", "C", "o", "d", "e", ">">>), (<<"<", "c", "o", "d", "e", ">">>)>>,
       <<(<<"<", "/", "C", "o", "d", "e", ">">>), (<<"<", "/", "c", "o", "d", "e", ">">>)>>,
       <<(<<"<", "B", ">">>), (<<"<", "b", ">">>)>>,
       <<(<<"<", "/", "B", ">">>), (<<"<", "/", "b", ">">>)>>,
       <<(<<"<", "S", "T", "R", "O", "N", "G", ">">>), (<<"<", "s", "t", "r", "o", "n", "g", ">">>)>>,
       <<(<<"<", "/", "S", "T", "R", "O", "N", "G", ">">>),
         (<<"<", "/", "s", "t", "r", "o", "n", "g", ">">>)>>,
       <<(<<"<", "I", ">">>), (<<"<", "i", ">">>)>>,
       <<(<<"<", "/", "I", ">">>), (<<"<", "/", "i", ">">>)>>,
       <<(<<"<", "U", ">">>), (<<"<", "u", ">">>)>>,
       <<(<<"<", "/", "U", ">">>), (<<"<", "/", "u", ">">>)>>,
       <<(<<"<", "E", "M", ">">>), (<<"<", "e", "m", ">">>)>>,
       <<(<<"<", "/", "E", "M", ">">>), (<<"<", "/", "e", "m", ">">>)>> >>

\* for pattern, replacement in tag_fixes: text = re.sub(...), from the k-th on
RECURSIVE TagFixesFrom(_, _)
TagFixesFrom(s, k) ==
    IF k > Len(tag_fixes) THEN s
    ELSE TagFixesFrom(SubLiteral(s, tag_fixes[k][1], tag_fixes[k][2]), k + 1)

\* the tag names of missing_closing_fixes, in the order of the list
missing_closing_fixes ==
    << <<"b">>, <<"c", "o", "d", "e">>, <<"s", "t", "r", "o", "n", "g">>, <<"i">> >>

OpenTag(name) == <<"<">> \o name \o <<">">>

CloseTag(name) == <<"<", "/">> \o name \o <<">">>

\* the number of characters other than "<" at s[i..]: [^<]* taken greedily
RECURSIVE NotLtRun(_, _)
NotLtRun(s, i) == IF i <= Len(s) /\ s[i] # "<" THEN 1 + NotLtRun(s, i + 1) ELSE 0

\* a replacement that closes the tag and opens it again
ClosingReplacement_reopen(name, inner) ==
    OpenTag(name) \o inner \o CloseTag(name) \o OpenTag(name)

\* the replacement r'<b>\1</b>' of a missing-closing fix
ClosingReplacement(name, inner) == OpenTag(name) \o inner \o CloseTag(name)

\* re.sub(r'<b>([^<]*)<b>', r'<b>\1</b>', s) for the tag name: the pattern
\* matches at an opening tag followed, after characters other than "<", by
\* the same opening tag
RECURSIVE SubMissingClosing(_, _)
SubMissingClosing(s, name) ==
    IF s = <<>> THEN <<>>
    ELSE IF /\ At(s, 1, OpenTag(name))
            /\ At(s, Len(name) + 3 + NotLtRun(s, Len(name) + 3), OpenTag(name))
    THEN ClosingReplacement(name, SubSeq(s, Len(name) + 3,
                                         Len(name) + 2 + NotLtRun(s, Len(name) + 3)))
         \o SubMissingClosing(From(s, 2 * Len(name) + 5 + NotLtRun(s, Len(name) + 3)), name)
    ELSE <<s[1]>> \o SubMissingClosing(Tail(s), name)

RECURSIVE MissingClosingFrom(_, _)
MissingClosingFrom(s, k) ==
    IF k > Len(missing_closing_fixes) THEN s
    ELSE MissingClosingFrom(SubMissingClosing(s, missing_closing_fixes[k]), k + 1)

\* fix_html_tags(text); an empty text is returned as it is
fix_html_tags(s) == IF s = <<>> THEN s ELSE MissingClosingFrom(TagFixesFrom(s, 1), 1)

\* the pieces the texts given to the sanitizer are made of
HtmlPieces ==
    {<<"<", "b", ">">>, <<"<", "B", ">">>, <<"<", "/", "b", ">">>, <<"<", "/", "B", ">">>,
     <<"<", "i", ">">>, <<"<", "I", ">">>, <<"<", "C", "o", "d", "e", ">">>,
     <<"<", "c", "o", "d", "e", ">">>, <<"x">>, <<"<">>, <<">">>, <<"B">>}

\* the most pieces of a text
MaxPieces == 4

RECURSIVE HtmlTexts(_)
HtmlTexts(n) ==
    IF n = 0 THEN {<<>>}
    ELSE HtmlTexts(n - 1) \cup {t \o p : t \in HtmlTexts(n - 1), p \in HtmlPieces}

InitHtml ==
    /\ backend = "railway"
    /\ user_states = NoStates
    /\ today \in Todays
    /\ transactions = <<>>
    /\ exchange_rates = {}
    /\ funds = <<>>
    /\ users = {}
    /\ groups = {}
    /\ last = [op |-> "start"]
    /\ text \in HtmlTexts(MaxPieces)
    /\ parsed = NoMatch
    /\ tasks = NoTasks

\* text = fix_html_tags(text): the sanitizer applied to the text at hand
FixHtmlTags ==
    /\ parsed' = [ok |-> TRUE, input |-> text, output |-> fix_html_tags(text)]
    /\ text' = fix_html_tags(text)
    /\ UNCHANGED <<tasks, user_states, backend, today, transactions, exchange_rates, funds, users, groups,
                   last>>

NextHtml == FixHtmlTags

SpecHtml == InitHtml /\ [][NextHtml]_vars

\* the lower-case letter of a letter of the tag names
LowerTagChar(c) ==
    CASE c = "B" -> "b" [] c = "I" -> "i" [] c = "U" -> "u" [] c = "C" -> "c"
      [] c = "O" -> "o" [] c = "D" -> "d" [] c = "E" -> "e" [] c = "M" -> "m"
      [] c = "S" -> "s" [] c = "T" -> "t" [] c = "R" -> "r" [] c = "N" -> "n"
      [] c = "G" -> "g" [] OTHER -> c

TagNames ==
    {<<"b">>, <<"i">>, <<"u">>, <<"e", "m">>, <<"c", "o", "d", "e">>,
     <<"s", "t", "r", "o", "n", "g">>}

\* the length of the tag at s[i..], opening or closing, in any case; 0 if
\* there is none
TagLenAt(s, i) ==
    LET k == IF i + 1 <= Len(s) /\ s[i + 1] = "/" THEN 1 ELSE 0
        N == {n \in TagNames :
                 /\ i + k + Len(n) + 1 <= Len(s)
                 /\ s[i] = "<"
                 /\ [j \in 1..Len(n) |-> LowerTagChar(s[i + k + j])] = n
                 /\ s[i + k + Len(n) + 1] = ">"}
    IN  IF i <= Len(s) /\ N # {} THEN k + Len(CHOOSE n \in N : TRUE) + 2 ELSE 0

\* the text with every tag replaced by the mark "TAG": the plain text between
\* the tags, and where the tags stand
RECURSIVE PlainText(_, _)
PlainText(s, i) ==
    IF i > Len(s) THEN <<>>
    ELSE IF TagLenAt(s, i) > 0 THEN <<"TAG">> \o PlainText(s, i + TagLenAt(s, i))
    ELSE <<s[i]>> \o PlainText(s, i + 1)

\* C23: fix_html_tags applied to its own output changes nothing, and its
\* output differs from its input in the spelling of tags only: the text
\* between the tags is the same.
C23_SanitizerIdempotent ==
    /\ [][parsed.ok => parsed'.output = parsed.output]_vars
    /\ [](parsed.ok => PlainText(parsed.output, 1) = PlainText(parsed.input, 1))

\* C23 witness: the sanitizer has been applied a second time, to the text
\* the first application made of "<Code>x<code>" (no text given to it holds
\* a closing code tag).
C23_Witness ==
    /\ parsed.ok
    /\ parsed.input = parsed.output
    /\ text = <<"<", "c", "o", "d", "e", ">", "x", "<", "/", "c", "o", "d", "e", ">">>

(***************************************************************************)
(* The query operations of the two stores, called on the same rows         *)
(***************************************************************************)
\* get_group_transactions(group_id, month, year), both given
get_group_transactions_of_month(tbl, group_id, month, year) ==
    LET Sel(r) == r.group_id = group_id /\ InMonth(r, month, year)
    IN  OrderByDateDesc(SelectSeq(tbl, Sel))

\* get_all_groups_transactions() without month and year: sqlite keeps the
\* rows of the current month, railway keeps every row
get_all_groups_transactions_now(be, tbl, now) ==
    LET Sel(r) == be = "sqlite" => InMonth(r, now.m, now.y)
    IN  OrderByDateDesc(SelectSeq(tbl, Sel))

\* the dates of the stored rows: the current month, the month before, and
\* the same month a year before
QueryDates == {MkDate(2025, 6, 1), MkDate(2025, 5, 31), MkDate(2024, 6, 1)}

\* the rows a table of this specification is made of
QueryRows ==
    {[user_id |-> u, group_id |-> g, date |-> d, currency |-> "TW", amount |-> 5,
      transaction_type |-> "income", created_by |-> u] :
        u \in UserIds, g \in {0, 100}, d \in QueryDates}

\* the most rows of such a table
MaxQueryRows == 2

RECURSIVE QueryTables(_)
QueryTables(n) ==
    IF n = 0 THEN {<<>>}
    ELSE QueryTables(n - 1) \cup {Append(t, r) : t \in QueryTables(n - 1), r \in QueryRows}

InitQuery ==
    /\ backend \in Backends
    /\ user_states = NoStates
    /\ today \in Todays
    /\ transactions \in QueryTables(MaxQueryRows)
    /\ exchange_rates = {}
    /\ funds = <<>>
    /\ users = UserIds
    /\ groups = {100}
    /\ last = [op |-> "start"]
    /\ text = NoCall
    /\ parsed = NoMatch
    /\ tasks = NoTasks

\* the answer of a query, as last keeps it: month 0 stands for month and
\* year left out
QueryAnswer(op, user_id, group_id, month, rows) ==
    /\ last' = [op |-> op, user_id |-> user_id, group_id |-> group_id, month |-> month,
                rows |-> rows]
    /\ UNCHANGED <<tasks, user_states, backend, today, transactions, exchange_rates, funds, users, groups,
                   text, parsed>>

\* what each query answers with the store be
AnswerOf(be, op, user_id, group_id, month) ==
    IF op = "get_user_transactions"
    THEN get_user_transactions(be, transactions, user_id, group_id, month, today.y, today)
    ELSE IF op = "get_group_transactions"
    THEN (IF month = 0 THEN get_group_transactions(be, transactions, group_id, today)
          ELSE get_group_transactions_of_month(transactions, group_id, month, today.y))
    ELSE (IF month = 0 THEN get_all_groups_transactions_now(be, transactions, today)
          ELSE get_all_groups_transactions(transactions, month, today.y))

GetUserTransactions ==
    \E u \in UserIds, g \in {0, 100}, month \in {0, 6} :
        QueryAnswer("get_user_transactions", u, g, month,
                    AnswerOf(backend, "get_user_transactions", u, g, month))

GetGroupTransactions ==
    \E month \in {0, 6} :
        QueryAnswer("get_group_transactions", 0, 100, month,
                    AnswerOf(backend, "get_group_transactions", 0, 100, month))

GetAllGroupsTransactions ==
    \E month \in {0, 6} :
        QueryAnswer("get_all_groups_transactions", 0, 0, month,
                    AnswerOf(backend, "get_all_groups_transactions", 0, 0, month))

NextQuery == GetUserTransactions \/ GetGroupTransactions \/ GetAllGroupsTransactions

SpecQuery == InitQuery /\ [][NextQuery]_vars

\* the entries of an answer
Entries(rows) == {rows[i] : i \in 1..Len(rows)}

\* C24: for the same rows and arguments each of the three queries answers
\* the same set of entries with the sqlite store as with the railway store,
\* and with month and year left out the entries are all of the current month.
C24_BackendsAnswerAlike ==
    last.op # "start" =>
        /\ \A be \in Backends :
              Entries(last.rows)
                  = Entries(AnswerOf(be, last.op, last.user_id, last.group_id, last.month))
        /\ last.month = 0 => \A r \in Entries(last.rows) : InMonth(r, today.m, today.y)

(***************************************************************************)
(* The rates of a day bucket                                               *)
(***************************************************************************)
\* the rates the group report's resolver answers for the date d
GroupRatesOf(d) ==
    [TW |-> get_latest_exchange_rates(exchange_rates, d, FALSE).TWD,
     CN |-> get_latest_exchange_rates(exchange_rates, d, FALSE).CNY]

\* the rates the fleet report's resolver answers for the date d
FleetRatesOf(d) ==
    [TW |-> ResolveRate(exchange_rates, d, "TW"), CN |-> ResolveRate(exchange_rates, d, "CN")]

\* C25: in the group report and in the fleet report every day bucket shows
\* and converts with the rates resolved for the date of its own entries.
C25_BucketUsesRatesOfItsDate ==
    /\ (last.op = "group_report" /\ ~last.denied /\ ~last.report.empty) =>
          \A i \in 1..Len(last.report.days) :
              last.report.days[i].rate
                  = GroupRatesOf(DateOfKey(ReportInput, last.report.days[i].key))
    /\ (last.op = "fleet_report" /\ ~last.report.empty) =>
          \A i \in 1..Len(last.report.days) :
              last.report.days[i].rate
                  = FleetRatesOf(DateOfKey(ReportInput, last.report.days[i].key))

(***************************************************************************)
(* The clear-report flow: the buttons clear_personal, clear_group and      *)
(* clear_fleet (_handle_clear_report), the date and the confirmation       *)
(* (_process_clear_report_date, _process_clear_report_confirmation,        *)
(* _execute_clear_report)                                                  *)
(***************************************************************************)
KW_Confirm == <<"u78BA", "u8A8D">>

M_Month == <<"6">>
M_Day == <<"6", "/", "1">>
M_Confirm == <<"u78BA", "u8A8D">>

ClearActions == {"clear_personal", "clear_group", "clear_fleet"}

\* the texts users send around the clear-report flow: a month, a day, the
\* confirmation, chatter and two ledger entries
ClearMessages == {M_Month, M_Day, M_Confirm, M_Chat, M_BareTW, M_DatedIncome}

ClearDispatchTable ==
    {<<x, Dispatch(x[1], x[2], x[3])>> : x \in ClearMessages \X UserIds \X Todays}

ClearDispatchOf(t, u, now) == (CHOOSE p \in ClearDispatchTable : p[1] = <<t, u, now>>)[2]

\* an entry whatever user holds it
PendingOf_any_user(u) == user_states

\* user_id in self.user_states: the entry of the user, if there is one
PendingOf(u) == {s \in user_states : s.user_id = u}

\* self.user_states[user_id] = {...}
SetState(u, action, step, date) ==
    (user_states \ PendingOf(u))
        \cup {[user_id |-> u, action |-> action, step |-> step, date |-> date]}

\* _handle_clear_report(query, data): the button sets the state of the user
\* who pressed it to waiting_date
PressClear(u, action) ==
    /\ user_states' = SetState(u, action, "waiting_date", <<>>)
    /\ last' = [op |-> "callback", user |-> u, data |-> action]
    /\ UNCHANGED <<tasks, backend, today, transactions, exchange_rates, funds, users, groups,
                   text, parsed>>

\* date_pattern r'^(\d{1,2})$|^(\d{1,2}/\d{1,2})$'
MatchesClearDate(s) ==
    LET a == DigitRun(s, 1, 2)
        b == DigitRun(s, a + 2, 2)
    IN  \/ a >= 1 /\ Len(s) = a
        \/ a >= 1 /\ At(s, a + 1, <<"/">>) /\ b >= 1 /\ Len(s) = a + 1 + b

\* _execute_clear_report(user_id, action, date_str): whether it answers True,
\* and the ledger afterwards.  A day is deleted with
\* delete_transaction(user_id, target_date, None, None), whose conditions
\* currency = NULL and amount = NULL hold for no row; date() raising answers
\* False; clear_group and clear_fleet answer True and delete nothing.
execute_clear_report(tbl, user_id, action, date_str, now) ==
    LET a == DigitRun(date_str, 1, 2)
        month == IntOf(SubSeq(date_str, 1, a))
        day == IntOf(SubSeq(date_str, a + 2, Len(date_str)))
        by_day == delete_transaction(tbl, user_id, MkDate(now.y, month, day), None, None)
        by_month == delete_monthly_transactions_all(tbl, user_id, month, now.y)
    IN  IF Contains(date_str, <<"/">>)
        THEN (IF ~ValidDate(now.y, month, day) THEN [success |-> FALSE, table |-> tbl]
              ELSE IF action = "clear_personal"
              THEN [success |-> Len(by_day) < Len(tbl), table |-> by_day]
              ELSE [success |-> TRUE, table |-> tbl])
        ELSE IF action = "clear_personal"
        THEN [success |-> Len(by_month) < Len(tbl), table |-> by_month]
        ELSE [success |-> TRUE, table |-> tbl]

\* _process_clear_report_date: a month or a day moves the user to
\* waiting_confirmation, any other text is answered with the format error
process_clear_report_date(u, chat, t, st) ==
    /\ user_states' = IF MatchesClearDate(Strip(t))
                      THEN SetState(u, st.action, "waiting_confirmation", Strip(t))
                      ELSE user_states
    /\ transactions' = transactions
    /\ last' = [op |-> "message", user |-> u, chat |-> chat, text |-> t, kind |-> "clear_date",
                reply |-> IF MatchesClearDate(Strip(t)) THEN "clear_confirm_prompt"
                          ELSE "clear_date_format_error"]

\* _process_clear_report_confirmation: the state is dropped; the text
\* "確認" executes the clear, any other text cancels it
process_clear_report_confirmation(u, chat, t, st, done) ==
    /\ user_states' = user_states \ PendingOf(u)
    /\ transactions' = IF Strip(t) = KW_Confirm THEN done.table ELSE transactions
    /\ last' = [op |-> "message", user |-> u, chat |-> chat, text |-> t,
                kind |-> "clear_confirmation", action |-> st.action, date |-> st.date,
                reply |-> IF Strip(t) # KW_Confirm THEN "clear_cancelled"
                          ELSE IF done.success THEN "clear_ok" ELSE "clear_failed"]

\* the end of _handle_other_commands: a text that is none of its commands,
\* sent by a user with an entry in user_states
ProcessClearState(u, chat, t, st) ==
    /\ IF st.step = "waiting_date" THEN process_clear_report_date(u, chat, t, st)
       ELSE process_clear_report_confirmation(
                u, chat, t, st, execute_clear_report(transactions, u, st.action, st.date, today))
    /\ UNCHANGED <<tasks, backend, today, exchange_rates, funds, users, groups, text, parsed>>

\* handle_transaction_message: a text that reaches the state check
ClearFlowMessage ==
    \E w \in Senders, t \in ClearMessages :
        /\ ClearDispatchOf(t, w.user, today).kind = "ignored"
        /\ PendingOf(w.user) # {}
        /\ ProcessClearState(w.user, w.chat, t, CHOOSE s \in PendingOf(w.user) : TRUE)

\* handle_transaction_message: a text routed before the state check, or sent
\* by a user without an entry in user_states
OtherMessage ==
    \E w \in Senders, t \in ClearMessages :
        /\ ~(ClearDispatchOf(t, w.user, today).kind = "ignored" /\ PendingOf(w.user) # {})
        /\ HandleDispatched(w.user, w.chat, t, ClearDispatchOf(t, w.user, today))

ClearButton == \E w \in Senders, action \in ClearActions : PressClear(w.user, action)

NextClear == ClearButton \/ ClearFlowMessage \/ OtherMessage

SpecClear == Init /\ [][NextClear]_vars

\* the entry of user u in user_states before the step
EntryOf(u) == {s \in user_states : s.user_id = u}

\* the user of last' has answered a pending confirmation with "確認" in this step
ConfirmedStep ==
    /\ last'.op = "message"
    /\ last'.kind = "clear_confirmation"
    /\ Strip(last'.text) = KW_Confirm
    /\ \E s \in EntryOf(last'.user) : s.step = "waiting_confirmation"

\* the date "M/D" of the current year
DayOfInput(date_str) ==
    MkDate(today.y, IntOf(SubSeq(date_str, 1, DigitRun(date_str, 1, 2))),
           IntOf(SubSeq(date_str, DigitRun(date_str, 1, 2) + 2, Len(date_str))))

\* the row is none of the user's entries of the day
NotOfUserDay(r) == ~(r.user_id = last'.user /\ r.date = DayOfInput(last'.date))

\* C26: once a user who has entries dated M/D of the current year has
\* pressed clear_personal, sent the day M/D and sent "確認", the ledger is
\* what it was without that user's entries of that day, and the reply
\* reports success.
C26_ClearPersonalDay ==
    [][(/\ ConfirmedStep
        /\ last'.action = "clear_personal"
        /\ Contains(last'.date, <<"/">>)
        /\ \E i \in 1..Len(transactions) : ~NotOfUserDay(transactions[i]))
          => /\ transactions' = SelectSeq(transactions, NotOfUserDay)
             /\ last'.reply = "clear_ok"]_vars

\* the entry of user u in user_states after the step
EntryAfter(u) == {s \in user_states' : s.user_id = u}

\* user u sends a text in this step
MessageOf(u) == last'.op = "message" /\ last'.user = u

\* C27: a user waiting for the confirmation who sends any text other than
\* "確認" is back in Idle afterwards: the pending clear is cancelled.
C27_OtherTextCancels ==
    [][\A u \in UserIds :
          (/\ \E s \in EntryOf(u) : s.step = "waiting_confirmation"
           /\ MessageOf(u)
           /\ Strip(last'.text) # KW_Confirm)
              => EntryAfter(u) = {}]_vars

\* the step changes the entry of user u in user_states
StateChanges(u) == EntryAfter(u) # EntryOf(u)

\* C28: the state of a user leaves Idle only for waiting_date and only by
\* that user's button; it becomes waiting_confirmation only from waiting_date
\* by a month or a day that user sends, any other text of the user leaving it
\* waiting_date; the ledger loses rows only when a user in
\* waiting_confirmation sends "確認"; a "確認" of a user in Idle or in
\* waiting_date changes neither the ledger nor any state; and the text of one
\* user never changes the state of another.
C28_ClearOnlyAfterSequence ==
    [][/\ \A u \in UserIds :
             (StateChanges(u) /\ \A s \in EntryAfter(u) : s.step = "waiting_date")
                 => (EntryAfter(u) = {} \/ (last'.op = "callback" /\ last'.user = u))
       /\ \A u \in UserIds :
             (StateChanges(u) /\ \E s \in EntryAfter(u) : s.step = "waiting_confirmation")
                 => /\ \E s \in EntryOf(u) : s.step = "waiting_date"
                    /\ MessageOf(u)
                    /\ MatchesClearDate(Strip(last'.text))
       /\ \A u \in UserIds :
             (/\ \E s \in EntryOf(u) : s.step = "waiting_date"
              /\ MessageOf(u)
              /\ ~MatchesClearDate(Strip(last'.text)))
                 => EntryAfter(u) = EntryOf(u)
       /\ Len(transactions') < Len(transactions)
             => /\ last'.op = "message"
                /\ Strip(last'.text) = KW_Confirm
                /\ \E s \in EntryOf(last'.user) : s.step = "waiting_confirmation"
       /\ \A u \in UserIds :
             (/\ MessageOf(u)
              /\ Strip(last'.text) = KW_Confirm
              /\ ~\E s \in EntryOf(u) : s.step = "waiting_confirmation")
                 => transactions' = transactions /\ user_states' = user_states
       /\ \A u \in UserIds, v \in UserIds :
             (u # v /\ MessageOf(v)) => EntryAfter(u) = EntryOf(u)]_vars

\* C28 witness: user 1 has gone through button, month and "確認" and the
\* entries of the month are deleted, while user 2, who pressed a button too,
\* still waits for a date.
C28_Witness ==
    /\ last.op = "message"
    /\ last.user = 1
    /\ last.kind = "clear_confirmation"
    /\ last.action = "clear_personal"
    /\ last.reply = "clear_ok"
    /\ transactions = <<>>
    /\ \E s \in user_states : s.user_id = 2 /\ s.step = "waiting_date"

\* the entries the announced clear covers: the user's for clear_personal,
\* the group's for clear_group, every entry for clear_fleet, of the day M/D
\* or of the month M of the current year
InClearedScope(r) ==
    /\ last.action = "clear_personal" => r.user_id = last.user
    /\ last.action = "clear_group" => r.group_id = last.chat
    /\ r.date.y = today.y
    /\ IF Contains(last.date, <<"/">>) THEN r.date = DayOfInput(last.date)
       ELSE r.date.m = IntOf(last.date)

\* C29: when the clear-report flow has answered that clearing succeeded, the
\* ledger holds no entry of the announced scope.
C29_SuccessMeansCleared ==
    (last.op = "message" /\ last.kind = "clear_confirmation" /\ last.reply = "clear_ok")
        => \A i \in 1..Len(transactions) : ~InClearedScope(transactions[i])

(***************************************************************************)
(* The fleet report: the headline and the day blocks                       *)
(***************************************************************************)
\* the daily subtotals of a currency over the day blocks, added up
RECURSIVE SubtotalSum(_, _)
SubtotalSum(days, currency) ==
    IF days = <<>> THEN 0
    ELSE Head(days).sub[currency] + SubtotalSum(Tail(days), currency)

\* the rows the headline local totals count: the income in TW or CN
CountedInHeadline(r) == r.transaction_type = "income" /\ r.currency \in {"TW", "CN"}

\* C30: in the fleet report the headline local total of each currency is the
\* sum of the daily subtotals of the day blocks shown, and every income entry
\* counted in a headline local total lies in a day block, whose conversion
\* the headline settlement total adds up.
C30_FleetHeadlineCoversDayBlocks ==
    (last.op = "fleet_report" /\ ~last.report.empty) =>
        /\ \A cur \in {"TW", "CN"} :
              last.report.totals[cur] = SubtotalSum(last.report.days, cur)
        /\ \A i \in 1..Len(ReportInput) :
              CountedInHeadline(ReportInput[i]) =>
                  \E k \in 1..Len(last.report.days) :
                      last.report.days[k].key = DayKey(ReportInput[i].date)

====
